---- MODULE Spec2Model ----
(***************************************************************************)
(* Live odds pricing, settlement and paper-trading ledger of               *)
(* football-ai-v2 (paper_trading.py, main.py, live_engine.py).             *)
(*                                                                         *)
(* Fixed-point conventions (Python floats are modelled on decimal grids):  *)
(*   money      : 1 unit = 0.0001 currency (MoneyScale units per 1.0)      *)
(*   percentages: 1 unit = 0.01 %  (KellyStaking returns round(pct, 2))    *)
(*   odds       : 1 unit = 0.01    (decimal odds 1.95 = 195)               *)
(*   lines      : 1 unit = 0.00001 goal (LineScale units per goal), the    *)
(*                size of the tolerance used by the settlement functions   *)
(***************************************************************************)
EXTENDS Integers, Sequences, FiniteSets, TLC

VARIABLES
    bankroll,        \* PaperTrader.bankroll
    active_orders,   \* PaperTrader.active_orders (list, append order)
    ledger,          \* PaperTrader.ledger (newest first)
    history,         \* main.RECOMMENDATION_HISTORY (list of records)
    match_states,    \* LatencyGuard.match_states, keyed by fixture id
    feed,            \* upstream provider: per fixture score and status
    now,             \* time.time(), seconds
    nOps,            \* number of API calls made so far (bounds SpecTrader)
    call,            \* input and output of the last pure function call
    last,            \* the operation performed by the last step
    tasks,           \* asyncio: who holds the event loop, each task's position
    STATS_FILE,      \* content of simulated_ledger.json
    LIVE_INPLAY_CACHE, \* main.LIVE_INPLAY_CACHE, the published fixture list
    NO_ODDS_TRACKER  \* main.NO_ODDS_TRACKER: fixture id -> first time seen
                     \* without odds

vars == <<bankroll, active_orders, ledger, history, match_states, feed, now,
          nOps, call, last, tasks, STATS_FILE, LIVE_INPLAY_CACHE,
          NO_ODDS_TRACKER>>

-----------------------------------------------------------------------------
(* Bounds of the model *)
MaxGoals == 2
MaxOps == 3
MaxPolls == 2
MaxFeedGoals == 1
StartTime == 1000

(* Scales of the fixed-point grids *)
MoneyScale == 100 * 100
Cent == MoneyScale \div 100
LineScale == 1000 * 100
Quarter == LineScale \div 4

Fixtures == {1, 2}
NoneVal == "None"
NoneGoal == 0 - 1      \* a goals entry that is None

-----------------------------------------------------------------------------
(* Arithmetic helpers *)

\* nearest integer to n/d for n >= 0, d > 0, ties to even (Python round())
RoundHalfEven(n, d) ==
    LET q == n \div d
        r == n % d
    IN  IF 2 * r < d THEN q
        ELSE IF 2 * r > d THEN q + 1
        ELSE IF q % 2 = 0 THEN q ELSE q + 1

\* round(x, 2) of a money amount: the nearest whole cent
Round2(x) ==
    IF x >= 0 THEN Cent * RoundHalfEven(x, Cent)
    ELSE -(Cent * RoundHalfEven(-x, Cent))

\* bankroll * (stake_pct / 100.0), stake_pct in units of 0.01 %
StakeAmount(bk, stake_pct) ==
    (bk \div 10000) * stake_pct + RoundHalfEven((bk % 10000) * stake_pct, 10000)

Abs(x) == IF x < 0 THEN -x ELSE x

RECURSIVE SumAmounts(_)
SumAmounts(s) == IF s = <<>> THEN 0 ELSE Head(s).amount + SumAmounts(Tail(s))


-----------------------------------------------------------------------------
(* paper_trading.py : PaperTrader *)

InitialBankroll == 100000
MinBet == 10
LedgerCap == 1000

\* a PaperTrader object: the three fields written by save_state
Trader(bk, ao, lg) == [bankroll |-> bk, active_orders |-> ao, ledger |-> lg]

\* PaperTrader.reset: full bankroll, no orders, the INIT entry
reset ==
    Trader(InitialBankroll * MoneyScale, <<>>,
           << [type |-> "INIT", amount |-> InitialBankroll * MoneyScale,
               balance |-> InitialBankroll * MoneyScale] >>)

\* PaperTrader._add_ledger_entry: newest first, at most LedgerCap entries
\* (bk is self.bankroll at the time of the call)
_add_ledger_entry(lg, bk, l_type, amount) ==
    LET entry == [type |-> l_type, amount |-> Round2(amount),
                  balance |-> Round2(bk)]
        ins == <<entry>> \o lg
    IN  IF Len(ins) > LedgerCap THEN SubSeq(ins, 1, Len(ins) - 1) ELSE ins

\* a deduplication test that looks for the match among closed orders only
OrderExists_ClosedOnly(ao, match_id) ==
    \E i \in DOMAIN ao :
        ao[i].match_id = match_id /\ ao[i].status # "OPEN"

\* the deduplication test of place_order: an order of the same match exists
OrderExists(ao, match_id) ==
    \E i \in DOMAIN ao : ao[i].match_id = match_id

\* PaperTrader.place_order; returns the new object, the flag and the message
place_order(pt, match_id, selection, odds, stake_pct) ==
    LET stake_amount == StakeAmount(pt.bankroll, stake_pct)
        order == [match_id |-> match_id, selection |-> selection,
                  odds |-> odds, stake |-> Round2(stake_amount),
                  status |-> "OPEN"]
        bk == pt.bankroll - stake_amount
    IN  IF OrderExists(pt.active_orders, match_id)
        THEN [pt |-> pt, ok |-> FALSE, msg |-> "exists"]
        ELSE IF stake_amount < MinBet * MoneyScale
        THEN [pt |-> pt, ok |-> FALSE, msg |-> "too small"]
        ELSE IF stake_amount > pt.bankroll
        THEN [pt |-> pt, ok |-> FALSE, msg |-> "insufficient"]
        ELSE [pt |-> Trader(bk, Append(pt.active_orders, order),
                            _add_ledger_entry(pt.ledger, bk, "BET",
                                              -stake_amount)),
              ok |-> TRUE, msg |-> "placed"]

\* PaperTrader._calculate_pnl; returns <<pnl, result_type>>
_calculate_pnl(order, h, a) ==
    LET sel == order.selection
        stk == order.stake
        net == order.odds - 100
        val == (h - a) * LineScale + sel.line
    IN  IF sel.type = "AH"
        THEN IF val >= 2 * Quarter
             THEN << (stk \div Cent) * net, "WIN" >>
             ELSE IF val <= -(2 * Quarter)
             THEN << -stk, "LOSS" >>
             ELSE IF Abs(val) < LineScale \div 100
             THEN << 0, "PUSH" >>
             ELSE IF Abs(val - Quarter) < LineScale \div 100
             THEN << RoundHalfEven((stk \div Cent) * net, 2), "HALF_WIN" >>
             ELSE IF Abs(val + Quarter) < LineScale \div 100
             THEN << -(stk \div 2), "HALF_LOSS" >>
             ELSE << 0, "VOID" >>
        ELSE << 0, "VOID" >>

\* the loop of settle_match over active_orders[i..], threading the bankroll
\* and the ledger through the orders of match_id
RECURSIVE SettleFrom(_, _, _, _, _, _)
SettleFrom(ao, i, bk, lg, match_id, score) ==
    IF i > Len(ao) THEN [bankroll |-> bk, ledger |-> lg]
    ELSE IF ao[i].match_id = match_id
    THEN LET res == _calculate_pnl(ao[i], score[1], score[2])
             return_amount == ao[i].stake + res[1]
             bk2 == IF return_amount > 0 THEN bk + return_amount ELSE bk
         IN  SettleFrom(ao, i + 1, bk2,
                        _add_ledger_entry(lg, bk2, res[2], return_amount),
                        match_id, score)
    ELSE SettleFrom(ao, i + 1, bk, lg, match_id, score)

\* a settle_match that forgets to delete the settled orders
RemoveSettled_KeepAll(ao, match_id) == ao

\* the orders settle_match keeps (to_remove_indices deleted)
RemoveSettled(ao, match_id) ==
    LET Keep(o) == o.match_id # match_id IN SelectSeq(ao, Keep)

\* PaperTrader.settle_match
settle_match(pt, match_id, score_home, score_away) ==
    LET r == SettleFrom(pt.active_orders, 1, pt.bankroll, pt.ledger,
                        match_id, <<score_home, score_away>>)
    IN  Trader(r.bankroll, RemoveSettled(pt.active_orders, match_id),
               r.ledger)

-----------------------------------------------------------------------------
(* main.py : settlement of recommendation records *)

\* an is_handicap_is_double that tests the digits 2 and 5
is_handicap_is_double_Digit5(hdp_abs) ==
    LET tail == hdp_abs % LineScale
        hundredths == RoundHalfEven(tail, LineScale \div 100)
        first_char == IF hundredths >= 100 THEN 0 ELSE hundredths \div 10
    IN  IF hdp_abs >= 0 /\ first_char \in {2, 5}
        THEN <<TRUE, hdp_abs - Quarter, hdp_abs + Quarter>>
        ELSE <<FALSE, hdp_abs, 0>>

\* is_handicap_is_double: the first decimal digit of f"{tail:.2f}" is 2 or 7;
\* returns <<is_double, first, second>>.  A negative argument formats as
\* "-0.xx", whose third character is the point, so it is never double.
is_handicap_is_double(hdp_abs) ==
    LET tail == hdp_abs % LineScale
        hundredths == RoundHalfEven(tail, LineScale \div 100)
        first_char == IF hundredths >= 100 THEN 0 ELSE hundredths \div 10
    IN  IF hdp_abs >= 0 /\ first_char \in {2, 7}
        THEN <<TRUE, hdp_abs - Quarter, hdp_abs + Quarter>>
        ELSE <<FALSE, hdp_abs, 0>>

\* settle_one_handicap: +score_value on a win, -score_value on a loss, 0.0
\* on a push; the tolerance 0.00001 is one line unit
settle_one_handicap(hdp_abs, hand, final_home_score, final_away_score, bet_home_score, bet_away_score, selection, score_value) ==
    LET compare_value == IF hand = 1 THEN hdp_abs
                         ELSE IF hand = 2 THEN -hdp_abs ELSE 0
        one_detla == IF selection = "Home"
                     THEN final_home_score - bet_home_score
                     ELSE final_away_score - bet_away_score
        two_delta == IF selection = "Home"
                     THEN final_away_score - bet_away_score
                     ELSE final_home_score - bet_home_score
        delta == (one_detla - two_delta) * LineScale
    IN  IF delta > compare_value + 1 THEN score_value
        ELSE IF delta < compare_value - 1 THEN -score_value
        ELSE 0

\* the chain of tolerance tests that turns total_score into rec['result'];
\* when none matches the record keeps its result
ResultOf(total_score, old) ==
    IF Abs(total_score - LineScale) < 1 THEN "Win"
    ELSE IF Abs(total_score - LineScale \div 2) < 1 THEN "Half Win"
    ELSE IF Abs(total_score) < 1 THEN "Push"
    ELSE IF Abs(total_score + LineScale \div 2) < 1 THEN "Half Loss"
    ELSE IF Abs(total_score + LineScale) < 1 THEN "Loss"
    ELSE old

\* a settle_one_hdp_record that reads the placed score of a pending record
\* only
settle_one_hdp_record_Rerun(rec, final_home_sore, final_away_score) ==
    LET selection == rec.selection
        hdp == rec.handicap
        \* round(abs(hdp), 2)
        hdp_abs == (LineScale \div 100)
                       * RoundHalfEven(Abs(hdp), LineScale \div 100)
        dbl == is_handicap_is_double(hdp_abs)
        hand == IF hdp < -1 THEN (IF selection = "Home" THEN 1 ELSE 2)
                ELSE IF hdp > 1 THEN (IF selection = "Home" THEN 2 ELSE 1)
                ELSE 0
        bet_home_score == IF rec.result = "Pending" THEN rec.score_at_rec[1]
                          ELSE 0
        bet_away_score == IF rec.result = "Pending" THEN rec.score_at_rec[2]
                          ELSE 0
        total_score ==
            IF dbl[1]
            THEN settle_one_handicap(dbl[2], hand, final_home_sore,
                     final_away_score, bet_home_score, bet_away_score,
                     selection, LineScale \div 2)
                 + settle_one_handicap(dbl[3], hand, final_home_sore,
                     final_away_score, bet_home_score, bet_away_score,
                     selection, LineScale \div 2)
            ELSE settle_one_handicap(hdp, hand, final_home_sore,
                     final_away_score, bet_home_score, bet_away_score,
                     selection, LineScale)
    IN  [rec EXCEPT !.result = ResultOf(total_score, rec.result)]

\* settle_one_hdp_record: returns the record with its result set
settle_one_hdp_record(rec, final_home_sore, final_away_score) ==
    LET selection == rec.selection
        hdp == rec.handicap
        \* round(abs(hdp), 2)
        hdp_abs == (LineScale \div 100)
                       * RoundHalfEven(Abs(hdp), LineScale \div 100)
        dbl == is_handicap_is_double(hdp_abs)
        hand == IF hdp < -1 THEN (IF selection = "Home" THEN 1 ELSE 2)
                ELSE IF hdp > 1 THEN (IF selection = "Home" THEN 2 ELSE 1)
                ELSE 0
        bet_home_score == rec.score_at_rec[1]
        bet_away_score == rec.score_at_rec[2]
        total_score ==
            IF dbl[1]
            THEN settle_one_handicap(dbl[2], hand, final_home_sore,
                     final_away_score, bet_home_score, bet_away_score,
                     selection, LineScale \div 2)
                 + settle_one_handicap(dbl[3], hand, final_home_sore,
                     final_away_score, bet_home_score, bet_away_score,
                     selection, LineScale \div 2)
            ELSE settle_one_handicap(hdp, hand, final_home_sore,
                     final_away_score, bet_home_score, bet_away_score,
                     selection, LineScale)
    IN  [rec EXCEPT !.result = ResultOf(total_score, rec.result)]

\* a settle_one_ou whose Over branch counts a total on the line as a win
settle_one_ou_PushWins(hdp, total_goals, selection, score_value) ==
    IF selection = "Over"
    THEN IF total_goals * LineScale > hdp - 1 THEN score_value
         ELSE -score_value
    ELSE IF total_goals * LineScale < hdp - 1 THEN score_value
         ELSE IF total_goals * LineScale > hdp + 1 THEN -score_value
         ELSE 0

\* settle_one_ou
settle_one_ou(hdp, total_goals, selection, score_value) ==
    IF selection = "Over"
    THEN IF total_goals * LineScale > hdp + 1 THEN score_value
         ELSE IF total_goals * LineScale < hdp - 1 THEN -score_value
         ELSE 0
    ELSE IF total_goals * LineScale < hdp - 1 THEN score_value
         ELSE IF total_goals * LineScale > hdp + 1 THEN -score_value
         ELSE 0

\* settle_one_ou_record: returns the record with its result set
settle_one_ou_record(rec, final_home_sore, final_away_score) ==
    LET selection == rec.selection
        hdp == rec.handicap
        dbl == is_handicap_is_double(hdp)
        total_goals == final_home_sore + final_away_score
        total_score ==
            IF dbl[1]
            THEN settle_one_ou(dbl[2], total_goals, selection, LineScale \div 2)
                 + settle_one_ou(dbl[3], total_goals, selection,
                                 LineScale \div 2)
            ELSE settle_one_ou(hdp, total_goals, selection, LineScale)
    IN  [rec EXCEPT !.result = ResultOf(total_score, rec.result)]

-----------------------------------------------------------------------------
(* live_engine.py : LatencyGuard, KellyStaking, ConsensusOracle,           *)
(* SignalGenerator                                                         *)

max_latency == 30
freeze_time == 60

\* a check_safety that records the score of a stale reading
check_safety_RecordsStale(ms, match_id, current_score, data_timestamp, t) ==
    IF t - data_timestamp > max_latency
    THEN [ms |-> (match_id :> [last_score |-> current_score,
                               last_event_ts |-> t]) @@ ms,
          safe |-> FALSE, reason |-> "stale"]
    ELSE IF match_id \notin DOMAIN ms
    THEN [ms |-> (match_id :> [last_score |-> current_score,
                               last_event_ts |-> 0]) @@ ms,
          safe |-> TRUE, reason |-> "first"]
    ELSE IF current_score # ms[match_id].last_score
    THEN [ms |-> [ms EXCEPT ![match_id] =
                      [last_score |-> current_score, last_event_ts |-> t]],
          safe |-> FALSE, reason |-> "goal"]
    ELSE IF t - ms[match_id].last_event_ts < freeze_time
    THEN [ms |-> ms, safe |-> FALSE, reason |-> "cooling"]
    ELSE [ms |-> ms, safe |-> TRUE, reason |-> "ok"]

\* a check_safety whose window still holds at exactly freeze_time
check_safety_LateThaw(ms, match_id, current_score, data_timestamp, t) ==
    IF t - data_timestamp > max_latency
    THEN [ms |-> ms, safe |-> FALSE, reason |-> "stale"]
    ELSE IF match_id \notin DOMAIN ms
    THEN [ms |-> (match_id :> [last_score |-> current_score,
                               last_event_ts |-> 0]) @@ ms,
          safe |-> TRUE, reason |-> "first"]
    ELSE IF current_score # ms[match_id].last_score
    THEN [ms |-> [ms EXCEPT ![match_id] =
                      [last_score |-> current_score, last_event_ts |-> t]],
          safe |-> FALSE, reason |-> "goal"]
    ELSE IF t - ms[match_id].last_event_ts <= freeze_time
    THEN [ms |-> ms, safe |-> FALSE, reason |-> "cooling"]
    ELSE [ms |-> ms, safe |-> TRUE, reason |-> "ok"]

\* LatencyGuard.check_safety; ms is match_states, t is time.time();
\* returns the new match_states and the verdict
check_safety(ms, match_id, current_score, data_timestamp, t) ==
    IF t - data_timestamp > max_latency
    THEN [ms |-> ms, safe |-> FALSE, reason |-> "stale"]
    ELSE IF match_id \notin DOMAIN ms
    THEN [ms |-> (match_id :> [last_score |-> current_score,
                               last_event_ts |-> 0]) @@ ms,
          safe |-> TRUE, reason |-> "first"]
    ELSE IF current_score # ms[match_id].last_score
    THEN [ms |-> [ms EXCEPT ![match_id] =
                      [last_score |-> current_score, last_event_ts |-> t]],
          safe |-> FALSE, reason |-> "goal"]
    ELSE IF t - ms[match_id].last_event_ts < freeze_time
    THEN [ms |-> ms, safe |-> FALSE, reason |-> "cooling"]
    ELSE [ms |-> ms, safe |-> TRUE, reason |-> "ok"]

\* KellyStaking(fraction=0.25, max_stake=0.05), in hundredths
fraction == 25
max_stake == 5

\* a calculate_stake without the cap
calculate_stake_NoCap(pn, pd, market_odds) ==
    LET num == pn * market_odds - 100 * pd
        den == pd * (market_odds - 100)
    IN  IF market_odds <= 101 \/ pn <= 0 THEN 0
        ELSE IF num <= 0 THEN 0
        ELSE RoundHalfEven(num * fraction * 100, den)

\* a calculate_stake that refuses a stake above the cap
calculate_stake_DropOverCap(pn, pd, market_odds) ==
    LET num == pn * market_odds - 100 * pd
        den == pd * (market_odds - 100)
    IN  IF market_odds <= 101 \/ pn <= 0 THEN 0
        ELSE IF num <= 0 THEN 0
        ELSE IF num * fraction >= max_stake * den THEN 0
        ELSE RoundHalfEven(num * fraction * 100, den)

\* KellyStaking.calculate_stake for model_prob = pn/pd and market_odds in
\* hundredths; returns the stake percentage in units of 0.01 %
calculate_stake(pn, pd, market_odds) ==
    LET num == pn * market_odds - 100 * pd    \* full_kelly = num / den
        den == pd * (market_odds - 100)
    IN  IF market_odds <= 101 \/ pn <= 0 THEN 0
        ELSE IF num <= 0 THEN 0
        ELSE IF num * fraction >= max_stake * den THEN max_stake * 100
        ELSE RoundHalfEven(num * fraction * 100, den)

\* ConsensusOracle.validate on the goals of the two packets; a packet's
\* goals are a pair whose entries may be None (NoneGoal); secondary is
\* [present, goals], absent when no secondary packet is passed;
\* returns the trust level
NormGoals(g) == IF NoneGoal \in {g[1], g[2]} THEN <<0, 0>> ELSE g

\* a validate that compares the away goals only
validate_AwayOnly(p_goals, secondary) ==
    IF ~secondary.present THEN "SINGLE_SOURCE"
    ELSE IF NormGoals(p_goals)[2] # NormGoals(secondary.goals)[2]
    THEN "CONFLICT_SCORE"
    ELSE "HIGH_CONSENSUS"

validate(p_goals, secondary) ==
    IF ~secondary.present THEN "SINGLE_SOURCE"
    ELSE IF NormGoals(p_goals) # NormGoals(secondary.goals)
    THEN "CONFLICT_SCORE"
    ELSE "HIGH_CONSENSUS"

\* fair odds are a fraction n/d (decimal odds); 0.0 is n = 0
FairOdds(n, d) == [n |-> n, d |-> d]

\* SignalGenerator.analyze: TRUE when a VALUE BET signal is returned;
\* market_odds in hundredths (0 when missing), threshold in percent
analyze(fair_odds, market_odds, threshold) ==
    /\ market_odds # 0
    /\ fair_odds.n # 0                    \* ZeroDivisionError is swallowed
    /\ IF fair_odds.n * fair_odds.d > 0
       THEN market_odds * Abs(fair_odds.d) > (100 + threshold) * Abs(fair_odds.n)
       ELSE market_odds < 0               \* negative fair odds: ev < -1

\* 1.0 / (1.0 - 1.0 / fair_odd) when the complement exceeds 0.01, else 0.0
\* (main.py: fair_odd_a, fair_odd_under); fair in hundredths
ComplementOdds(fair) ==
    IF fair > 0 /\ 100 * (fair - 100) > fair
    THEN FairOdds(fair, fair - 100) ELSE FairOdds(0, 1)

-----------------------------------------------------------------------------
(* main.py : recommendation history and the polling loop body *)

\* the record key f"{id}_{line}_{side}" / f"{id}_OU_{line}_{sel}"
RecKey(match_id, market, line, side) == <<match_id, market, line, side>>

\* add_recommendation_record: a record whose key is present is dropped
add_recommendation_record(hist, record) ==
    IF \E i \in DOMAIN hist : hist[i].key = record.key
    THEN hist ELSE Append(hist, record)

\* display_bet of process_bet_signal (the Chinese labels are tagged in ASCII)
DisplayBet(line, side) ==
    LET eff_line == IF side = "Home" THEN line ELSE -line
    IN  IF eff_line < 0 THEN (IF side = "Home" THEN "HomeGive" ELSE "AwayGive")
        ELSE IF eff_line > 0
        THEN (IF side = "Home" THEN "HomeTake" ELSE "AwayTake")
        ELSE "Level"

\* the bet_type tests of settle_pending_records
IsHandicapBet(bet_type) ==
    bet_type \in {"HomeGive", "AwayGive", "HomeTake", "AwayTake", "Level"}
IsTotalsBet(bet_type) == bet_type \in {"Over", "Under"}

\* the state threaded through the trading part of one loop iteration:
\* the paper trader, the history, and a log of the calls made
\* (attempts: place_order calls, adds: add_recommendation_record calls)
TradeState(pt, hist, attempts, adds) ==
    [pt |-> pt, history |-> hist, attempts |-> attempts, adds |-> adds]

\* one paper_engine.place_order call of the loop body
PlaceCall(st, match_id, selection, odds, stake_pct) ==
    LET Called(r) ==
            TradeState(r.pt, st.history,
                       Append(st.attempts,
                              [key |-> RecKey(match_id, selection.type,
                                              selection.line, selection.side),
                               ok |-> r.ok]),
                       st.adds)
    IN  Called(place_order(st.pt, match_id, selection, odds, stake_pct))

\* the first AH block: ah_signal at the default threshold, paper order only
FirstAhBlock(st, match_id, goals, line, m_odd_h, fair) ==
    LET kelly_pct == calculate_stake(100, fair, m_odd_h)
    IN  IF analyze(FairOdds(fair, 100), m_odd_h, 5) /\ kelly_pct > 0
        THEN PlaceCall(st, match_id,
                       [type |-> "AH", line |-> line, side |-> NoneVal,
                        start_score |-> goals],
                       m_odd_h, kelly_pct)
        ELSE st

\* process_bet_signal
process_bet_signal(st, match_id, goals, current_line, side, m_odd, f_odd) ==
    LET k_pct == IF f_odd.n > 0
                 THEN calculate_stake(f_odd.d, f_odd.n, m_odd)
                 ELSE calculate_stake(0, 1, m_odd)
        rec_record ==
            [key |-> RecKey(match_id, "AH", current_line, side),
             match_id |-> match_id, score_at_rec |-> goals,
             selection |-> side, handicap |-> current_line,
             bet_type |-> DisplayBet(current_line, side),
             result |-> "Pending", final_score |-> <<>>]
        added == TradeState(st.pt,
                            add_recommendation_record(st.history, rec_record),
                            st.attempts, Append(st.adds, rec_record.key))
    IN  IF k_pct <= 0 THEN st
        ELSE PlaceCall(added, match_id,
                       [type |-> "AH", line |-> current_line, side |-> side,
                        start_score |-> goals],
                       m_odd, k_pct)

\* process_ou_signal
process_ou_signal(st, match_id, goals, sel, line, m_odd, f_odd) ==
    LET k_pct == IF f_odd.n > 0
                 THEN calculate_stake(f_odd.d, f_odd.n, m_odd)
                 ELSE calculate_stake(0, 1, m_odd)
        rec == [key |-> RecKey(match_id, "OU", line, sel),
                match_id |-> match_id, score_at_rec |-> goals,
                selection |-> sel, handicap |-> line, bet_type |-> sel,
                result |-> "Pending", final_score |-> <<>>]
        added == TradeState(st.pt, add_recommendation_record(st.history, rec),
                            st.attempts, Append(st.adds, rec.key))
    IN  IF k_pct <= 0 THEN st
        ELSE PlaceCall(added, match_id,
                       [type |-> "OU", line |-> line, side |-> sel,
                        start_score |-> goals],
                       m_odd, k_pct)

\* section C of the loop body: the quoted handicap line ah =
\* [present, line, h, a, fair]; h and a are the market odds (0 = missing)
AhSection(st, match_id, goals, ah) ==
    LET HomeSide(s1, fair_odd) ==
            IF analyze(fair_odd, ah.h, 3)
            THEN process_bet_signal(s1, match_id, goals, ah.line, "Home",
                                    ah.h, fair_odd)
            ELSE s1
        AwaySide(s2, fair_odd_a) ==
            IF analyze(fair_odd_a, ah.a, 3)
            THEN process_bet_signal(s2, match_id, goals, ah.line, "Away",
                                    ah.a, fair_odd_a)
            ELSE s2
    IN  AwaySide(HomeSide(FirstAhBlock(st, match_id, goals, ah.line, ah.h,
                                       ah.fair),
                          FairOdds(ah.fair, 100)),
                 ComplementOdds(ah.fair))

\* section D of the loop body: the quoted totals line ou =
\* [present, line, o, u, fair]
OuSection(st, match_id, goals, ou) ==
    LET OverSide(s0, fair_odd_over) ==
            IF analyze(fair_odd_over, ou.o, 5)
            THEN process_ou_signal(s0, match_id, goals, "Over", ou.line,
                                   ou.o, fair_odd_over)
            ELSE s0
        UnderSide(s1, fair_odd_under) ==
            IF analyze(fair_odd_under, ou.u, 5)
            THEN process_ou_signal(s1, match_id, goals, "Under", ou.line,
                                   ou.u, fair_odd_under)
            ELSE s1
    IN  UnderSide(OverSide(st, FairOdds(ou.fair, 100)),
                  ComplementOdds(ou.fair))

\* sections C and D inside their try block.  With a handicap line quoted,
\* building advanced_analytics reads the unbound name `signal`; the
\* NameError is caught by the enclosing except and section D is skipped.
TradeSections(st, match_id, goals, ah, ou) ==
    IF ah.present THEN AhSection(st, match_id, goals, ah)
    ELSE IF ou.present THEN OuSection(st, match_id, goals, ou)
    ELSE st

\* one iteration of the for loop of poll_live_data_task over a live fixture
PollBody(pt, hist, ms, match_id, goals, secondary, ah, ou, t) ==
    LET Skipped(trust_status) ==
            [pt |-> pt, history |-> hist, ms |-> ms,
             trust |-> trust_status, safe |-> TRUE,
             attempts |-> <<>>, adds |-> <<>>]
        Processed(trust_status, chk, st) ==
            [pt |-> st.pt, history |-> st.history, ms |-> chk.ms,
             trust |-> trust_status, safe |-> chk.safe,
             attempts |-> st.attempts, adds |-> st.adds]
        Body(trust_status) ==
            IF trust_status = "CONFLICT_SCORE"
            THEN Skipped(trust_status)
            ELSE Processed(trust_status,
                           check_safety(ms, match_id, goals, t, t),
                           TradeSections(TradeState(pt, hist, <<>>, <<>>),
                                         match_id, goals, ah, ou))
    IN  Body(validate(goals, secondary))

\* the record loop of settle_pending_records for one record; finished_ids
\* are the fixtures the provider reports FT/AET/PEN, fd their scores
SettleRecord(rec, finished_ids, fd) ==
    IF rec.result = "Pending" /\ rec.match_id \in finished_ids
    THEN LET h_s == fd[rec.match_id].score[1]
             a_s == fd[rec.match_id].score[2]
             scored == [rec EXCEPT !.final_score = <<h_s, a_s>>]
         IN  IF IsHandicapBet(rec.bet_type)
             THEN settle_one_hdp_record(scored, h_s, a_s)
             ELSE IF IsTotalsBet(rec.bet_type)
             THEN settle_one_ou_record(scored, h_s, a_s)
             ELSE scored
    ELSE rec

\* the paper-trading loop of settle_pending_records over the fixtures of the
\* response (in the order of the response, here ascending id)
RECURSIVE SettlePaper(_, _, _, _)
SettlePaper(pt, ids, finished_ids, fd) ==
    IF ids = {} THEN pt
    ELSE LET fid == CHOOSE x \in ids : \A y \in ids : x <= y
             pt2 == IF fid \in finished_ids
                    THEN settle_match(pt, fid, fd[fid].score[1],
                                      fd[fid].score[2])
                    ELSE pt
         IN  SettlePaper(pt2, ids \ {fid}, finished_ids, fd)

\* settle_pending_records; request_ok is FALSE when the fixtures request
\* raises or does not answer 200
settle_pending_records(pt, hist, fd, request_ok) ==
    LET pending_ids == {hist[i].match_id : i \in
                           {j \in DOMAIN hist : hist[j].result = "Pending"}}
        finished_ids == {f \in pending_ids : fd[f].status = "FT"}
    IN  IF pending_ids = {} \/ ~request_ok
        THEN [pt |-> pt, history |-> hist]
        ELSE [pt |-> SettlePaper(pt, pending_ids, finished_ids, fd),
              history |-> [i \in DOMAIN hist |->
                              SettleRecord(hist[i], finished_ids, fd)]]

-----------------------------------------------------------------------------
(* Inputs of the model *)

TickStep == freeze_time
MaxTime == StartTime + freeze_time

\* quarter-point lines settled by the pure settlement calls
MaxLineQ == 6
MaxOuLineQ == 14
HdpLines == {k * Quarter : k \in (0 - MaxLineQ)..MaxLineQ}
OuLines == {k * Quarter : k \in 1..MaxOuLineQ}
Scores == (0..MaxGoals) \X (0..MaxGoals)

\* quotes of one polling cycle: line, market odds, fair odds of the model
NoQuote == [present |-> FALSE, line |-> 0, h |-> 0, a |-> 0, fair |-> 0]
AhQuotes(f) ==
    IF f = 1
    THEN { NoQuote,
           [present |-> TRUE, line |-> 0 - 2 * Quarter, h |-> 210, a |-> 180,
            fair |-> 180] }
    ELSE { NoQuote,
           [present |-> TRUE, line |-> 0 - 3 * Quarter, h |-> 0, a |-> 240,
            fair |-> 190] }
NoOuQuote == [present |-> FALSE, line |-> 0, o |-> 0, u |-> 0, fair |-> 0]
OuQuotes ==
    { NoOuQuote,
      [present |-> TRUE, line |-> 10 * Quarter, o |-> 210, u |-> 180,
       fair |-> 180] }

\* what a secondary source may report next to primary goals g
Secondaries(g) ==
    { [present |-> FALSE, goals |-> g],
      [present |-> TRUE, goals |-> g],
      [present |-> TRUE, goals |-> <<g[1] + 1, g[2]>>] }

\* direct calls of the PaperTrader interface
CallSelections ==
    { [type |-> "AH", line |-> 0 - 2 * Quarter, side |-> "Home",
       start_score |-> <<0, 0>>],
      [type |-> "AH", line |-> 0 - 3 * Quarter, side |-> "Home",
       start_score |-> <<0, 0>>],
      [type |-> "AH", line |-> 0 - 5 * Quarter, side |-> "Home",
       start_score |-> <<0, 0>>],
      [type |-> "AH", line |-> 0 - 4 * Quarter, side |-> "Away",
       start_score |-> <<0, 0>>],
      [type |-> "OU", line |-> 10 * Quarter, side |-> "Over",
       start_score |-> <<0, 0>>] }
CallOdds == {190, 210}
CallPcts == {1, 125, 500, 15000}

-----------------------------------------------------------------------------
(* State machine *)

NoCall == [fn |-> "none", rec |-> <<>>, final |-> <<>>, done |-> FALSE]
\* the record of the last step: the operation, its fixture, its inputs (arg)
\* and what it returned or called
Op(op, f, trust, safe, attempts, adds, arg) ==
    [op |-> op, fixture |-> f, trust |-> trust, safe |-> safe,
     attempts |-> attempts, adds |-> adds, arg |-> arg]

\* the two background tasks started by lifespan
Tasks == {"poll", "settle"}

\* the locals of a task inside place_order / settle_match, and of its caller
NoLocals ==
    [match_id |-> 0, selection |-> <<>>, odds |-> 0, stake_pct |-> 0,
     stake_amount |-> 0, score |-> <<>>, idx |-> 0, to_remove |-> {},
     settled_count |-> 0, at_call |-> Trader(0, <<>>, <<>>), ret |-> "",
     after |-> "", pending_ids |-> {}, todo |-> <<>>,
     saved_history |-> <<>>]

\* no task holds the event loop, both tasks wait at their first await
NoTasks ==
    [running |-> "none", pc |-> [t \in Tasks |-> "await"],
     loc |-> [t \in Tasks |-> NoLocals]]

\* simulated_ledger.json after a complete json.dump of pt by save_state
Saved(pt) == [complete |-> TRUE, data |-> pt]

\* simulated_ledger.json truncated, or holding the head of a document
Torn == [complete |-> FALSE, data |-> Trader(0, <<>>, <<>>)]

InitBase ==
    /\ tasks = NoTasks
    /\ STATS_FILE = Saved(reset)
    /\ LIVE_INPLAY_CACHE = <<>>
    /\ NO_ODDS_TRACKER = <<>>
    /\ bankroll = reset.bankroll
    /\ active_orders = reset.active_orders
    /\ ledger = reset.ledger
    /\ history = <<>>
    /\ match_states = <<>>
    /\ feed = [f \in Fixtures |-> [score |-> <<0, 0>>, status |-> "LIVE"]]
    /\ now = StartTime
    /\ nOps = 0
    /\ last = Op("init", 0, "", TRUE, <<>>, <<>>, <<>>)

Init == InitBase /\ call = NoCall

PT == Trader(bankroll, active_orders, ledger)

\* poll_live_data_task: the loop body for live fixture f
Poll(f) ==
    /\ feed[f].status = "LIVE"
    /\ nOps < MaxPolls
    /\ nOps' = nOps + 1
    /\ \E secondary \in Secondaries(feed[f].score), ah \in AhQuotes(f),
          ou \in OuQuotes :
          \E r \in {PollBody(PT, history, match_states, f, feed[f].score,
                            secondary, ah, ou, now)} :
              /\ bankroll' = r.pt.bankroll
              /\ active_orders' = r.pt.active_orders
              /\ ledger' = r.pt.ledger
              /\ history' = r.history
              /\ match_states' = r.ms
              /\ last' = Op("poll", f, r.trust, r.safe, r.attempts, r.adds,
                            [secondary |-> secondary, ah |-> ah, ou |-> ou])
    /\ UNCHANGED <<feed, now, call>>
    /\ UNCHANGED <<tasks, STATS_FILE, LIVE_INPLAY_CACHE, NO_ODDS_TRACKER>>

\* poll_settlement_task: one run of settle_pending_records
SettlePending ==
    /\ \E request_ok \in BOOLEAN :
          \E r \in {settle_pending_records(PT, history, feed, request_ok)} :
              /\ bankroll' = r.pt.bankroll
              /\ active_orders' = r.pt.active_orders
              /\ ledger' = r.pt.ledger
              /\ history' = r.history
    /\ last' = Op("settle", 0, "", TRUE, <<>>, <<>>, <<>>)
    /\ UNCHANGED <<match_states, feed, now, nOps, call>>
    /\ UNCHANGED <<tasks, STATS_FILE, LIVE_INPLAY_CACHE, NO_ODDS_TRACKER>>

\* goals scored so far in the fixtures of fs
RECURSIVE TotalGoals(_)
TotalGoals(fs) ==
    IF fs = {} THEN 0
    ELSE LET f == CHOOSE x \in fs : TRUE
         IN  feed[f].score[1] + feed[f].score[2] + TotalGoals(fs \ {f})

\* the provider: a goal in a live fixture, or a revision of a final score
\* (at most MaxFeedGoals in a run)
Goal(f) ==
    /\ \E side \in {1, 2} :
          /\ TotalGoals(Fixtures) < MaxFeedGoals
          /\ feed' = [feed EXCEPT ![f].score[side] = @ + 1]
    /\ last' = Op("env", 0, "", TRUE, <<>>, <<>>, <<>>)
    /\ UNCHANGED <<bankroll, active_orders, ledger, history, match_states,
                   now, nOps, call>>
    /\ UNCHANGED <<tasks, STATS_FILE, LIVE_INPLAY_CACHE, NO_ODDS_TRACKER>>

\* the provider: full time
Finish(f) ==
    /\ feed[f].status = "LIVE"
    /\ feed' = [feed EXCEPT ![f].status = "FT"]
    /\ last' = Op("env", 0, "", TRUE, <<>>, <<>>, <<>>)
    /\ UNCHANGED <<bankroll, active_orders, ledger, history, match_states,
                   now, nOps, call>>
    /\ UNCHANGED <<tasks, STATS_FILE, LIVE_INPLAY_CACHE, NO_ODDS_TRACKER>>

\* the clock
Tick ==
    /\ now + TickStep <= MaxTime
    /\ now' = now + TickStep
    /\ last' = Op("env", 0, "", TRUE, <<>>, <<>>, <<>>)
    /\ UNCHANGED <<bankroll, active_orders, ledger, history, match_states,
                   feed, nOps, call>>
    /\ UNCHANGED <<tasks, STATS_FILE, LIVE_INPLAY_CACHE, NO_ODDS_TRACKER>>

Next ==
    \/ \E f \in Fixtures : Poll(f)
    \/ SettlePending
    \/ \E f \in Fixtures : Goal(f)
    \/ \E f \in Fixtures : Finish(f)
    \/ Tick

Spec == Init /\ [][Next]_vars

-----------------------------------------------------------------------------
(* The PaperTrader interface driven by arbitrary calls *)

PlaceOrderCall ==
    /\ nOps < MaxOps
    /\ \E match_id \in Fixtures, selection \in CallSelections,
          odds \in CallOdds, stake_pct \in CallPcts :
          LET r == place_order(PT, match_id, selection, odds, stake_pct)
          IN  /\ bankroll' = r.pt.bankroll
              /\ active_orders' = r.pt.active_orders
              /\ ledger' = r.pt.ledger
              /\ last' = Op("place_order", match_id, r.msg, TRUE,
                            << [key |-> RecKey(match_id, selection.type,
                                               selection.line, selection.side),
                                ok |-> r.ok] >>, <<>>,
                            [selection |-> selection, odds |-> odds,
                             stake_pct |-> stake_pct])
    /\ nOps' = nOps + 1
    /\ UNCHANGED <<history, match_states, feed, now, call>>
    /\ UNCHANGED <<tasks, STATS_FILE, LIVE_INPLAY_CACHE, NO_ODDS_TRACKER>>

SettleMatchCall ==
    /\ nOps < MaxOps
    /\ \E match_id \in Fixtures, score \in Scores :
          LET r == settle_match(PT, match_id, score[1], score[2])
          IN  /\ bankroll' = r.bankroll
              /\ active_orders' = r.active_orders
              /\ ledger' = r.ledger
              /\ last' = Op("settle_match", match_id, "", TRUE, <<>>, <<>>, score)
    /\ nOps' = nOps + 1
    /\ UNCHANGED <<history, match_states, feed, now, call>>
    /\ UNCHANGED <<tasks, STATS_FILE, LIVE_INPLAY_CACHE, NO_ODDS_TRACKER>>

NextTrader == PlaceOrderCall \/ SettleMatchCall

SpecTrader == Init /\ [][NextTrader]_vars

-----------------------------------------------------------------------------
(* The settlement functions applied to every record of the input sets *)

HdpRecords ==
    { [key |-> RecKey(1, "AH", l, s), match_id |-> 1, score_at_rec |-> sc,
       selection |-> s, handicap |-> l, bet_type |-> DisplayBet(l, s),
       result |-> "Pending", final_score |-> <<>>] :
      l \in HdpLines, s \in {"Home", "Away"}, sc \in Scores }
OuRecords ==
    { [key |-> RecKey(1, "OU", l, s), match_id |-> 1, score_at_rec |-> sc,
       selection |-> s, handicap |-> l, bet_type |-> s,
       result |-> "Pending", final_score |-> <<>>] :
      l \in OuLines, s \in {"Over", "Under"}, sc \in Scores }

InitSettle ==
    /\ InitBase
    /\ \E final \in Scores :
          \/ \E rec \in HdpRecords :
                call = [fn |-> "hdp", rec |-> rec, final |-> final,
                        done |-> FALSE]
          \/ \E rec \in OuRecords :
                call = [fn |-> "ou", rec |-> rec, final |-> final,
                        done |-> FALSE]

SettleHdpCall ==
    /\ call.fn = "hdp" /\ ~call.done
    /\ call' = [call EXCEPT
                  !.rec = settle_one_hdp_record(call.rec, call.final[1],
                                                call.final[2]),
                  !.done = TRUE]
    /\ UNCHANGED <<bankroll, active_orders, ledger, history, match_states,
                   feed, now, nOps, last>>
    /\ UNCHANGED <<tasks, STATS_FILE, LIVE_INPLAY_CACHE, NO_ODDS_TRACKER>>

SettleOuCall ==
    /\ call.fn = "ou" /\ ~call.done
    /\ call' = [call EXCEPT
                  !.rec = settle_one_ou_record(call.rec, call.final[1],
                                               call.final[2]),
                  !.done = TRUE]
    /\ UNCHANGED <<bankroll, active_orders, ledger, history, match_states,
                   feed, now, nOps, last>>
    /\ UNCHANGED <<tasks, STATS_FILE, LIVE_INPLAY_CACHE, NO_ODDS_TRACKER>>

NextSettle == SettleHdpCall \/ SettleOuCall

SpecSettle == InitSettle /\ [][NextSettle]_vars

-----------------------------------------------------------------------------
(* The two asyncio tasks, statement by statement.  A coroutine keeps the    *)
(* event loop from one await expression to the next; place_order and       *)
(* settle_match are plain methods and contain no await.                    *)

MaxWakes == 4

\* a task gives up the event loop exactly where its position is an await
\* expression (main.py: run_in_executor at 302 and 614, asyncio.sleep at
\* 2062 and 2074); a scheduler that may switch after every statement
Suspends_Anywhere(pc) == TRUE

Suspends(pc) == pc \in {"await", "await_resp"}

\* task t may execute its next statement
Runnable(t) == tasks.running = t \/ tasks.running = "none"
At(t, pc) == Runnable(t) /\ tasks.pc[t] = pc

\* task t moves to pc2 with locals loc2
Move(t, pc2, loc2) ==
    [running |-> IF Suspends(pc2) THEN "none" ELSE t,
     pc |-> [tasks.pc EXCEPT ![t] = pc2],
     loc |-> [tasks.loc EXCEPT ![t] = loc2]]

Loc(t) == tasks.loc[t]

\* what the statements of the tasks leave alone
TaskFrame ==
    UNCHANGED <<match_states, feed, now, call, LIVE_INPLAY_CACHE,
                NO_ODDS_TRACKER>>

\* the signals the polling task acts on: handicap -0.5 on the home side
TaskPcts == {125, 500}
TaskOdds == 210
TaskLine == 0 - 2 * Quarter

\* poll_live_data_task resumes after its fetch: process_bet_signal for a
\* live fixture adds the record and calls paper_engine.place_order
PollWake(t) ==
    /\ t = "poll" /\ At(t, "await") /\ nOps < MaxWakes
    /\ \E f \in Fixtures, stake_pct \in TaskPcts :
          /\ feed[f].status = "LIVE"
          /\ history' = add_recommendation_record(history,
                [key |-> RecKey(f, "AH", TaskLine, "Home"),
                 match_id |-> f, score_at_rec |-> feed[f].score,
                 selection |-> "Home", handicap |-> TaskLine,
                 bet_type |-> DisplayBet(TaskLine, "Home"),
                 result |-> "Pending", final_score |-> <<>>])
          /\ tasks' = Move(t, "po_check",
                [NoLocals EXCEPT
                    !.match_id = f,
                    !.selection = [type |-> "AH", line |-> TaskLine,
                                   side |-> "Home",
                                   start_score |-> feed[f].score],
                    !.odds = TaskOdds, !.stake_pct = stake_pct])
    /\ nOps' = nOps + 1
    /\ last' = Op("wake", 0, t, TRUE, <<>>, <<>>, <<>>)
    /\ UNCHANGED <<bankroll, active_orders, ledger, STATS_FILE>>
    /\ TaskFrame

\* place_order, the deduplication loop
PoCheck(t) ==
    /\ At(t, "po_check")
    /\ tasks' = IF OrderExists(active_orders, Loc(t).match_id)
                THEN Move(t, "po_return",
                          [Loc(t) EXCEPT !.at_call = PT, !.ret = "exists"])
                ELSE Move(t, "po_stake", [Loc(t) EXCEPT !.at_call = PT])
    /\ last' = Op("step", 0, t, TRUE, <<>>, <<>>, <<>>)
    /\ UNCHANGED <<bankroll, active_orders, ledger, history, nOps,
                   STATS_FILE>>
    /\ TaskFrame

\* place_order, stake_amount and its two tests
PoStake(t) ==
    /\ At(t, "po_stake")
    /\ \E stake_amount \in {StakeAmount(bankroll, Loc(t).stake_pct)} :
          tasks' = IF stake_amount < MinBet * MoneyScale
                   THEN Move(t, "po_return",
                             [Loc(t) EXCEPT !.ret = "too small"])
                   ELSE IF stake_amount > bankroll
                   THEN Move(t, "po_return",
                             [Loc(t) EXCEPT !.ret = "insufficient"])
                   ELSE Move(t, "po_deduct",
                             [Loc(t) EXCEPT !.stake_amount = stake_amount])
    /\ last' = Op("step", 0, t, TRUE, <<>>, <<>>, <<>>)
    /\ UNCHANGED <<bankroll, active_orders, ledger, history, nOps,
                   STATS_FILE>>
    /\ TaskFrame

\* place_order, self.bankroll -= stake_amount
PoDeduct(t) ==
    /\ At(t, "po_deduct")
    /\ bankroll' = bankroll - Loc(t).stake_amount
    /\ tasks' = Move(t, "po_append", Loc(t))
    /\ last' = Op("step", 0, t, TRUE, <<>>, <<>>, <<>>)
    /\ UNCHANGED <<active_orders, ledger, history, nOps, STATS_FILE>>
    /\ TaskFrame

\* place_order, self.active_orders.append(order)
PoAppend(t) ==
    /\ At(t, "po_append")
    /\ active_orders' =
          Append(active_orders,
                 [match_id |-> Loc(t).match_id,
                  selection |-> Loc(t).selection, odds |-> Loc(t).odds,
                  stake |-> Round2(Loc(t).stake_amount), status |-> "OPEN"])
    /\ tasks' = Move(t, "po_ledger", Loc(t))
    /\ last' = Op("step", 0, t, TRUE, <<>>, <<>>, <<>>)
    /\ UNCHANGED <<bankroll, ledger, history, nOps, STATS_FILE>>
    /\ TaskFrame

\* place_order, self._add_ledger_entry("BET", -stake_amount, ...)
PoLedger(t) ==
    /\ At(t, "po_ledger")
    /\ ledger' = _add_ledger_entry(ledger, bankroll, "BET",
                                   -(Loc(t).stake_amount))
    /\ tasks' = Move(t, "save_open",
                     [Loc(t) EXCEPT !.ret = "placed", !.after = "po_return"])
    /\ last' = Op("step", 0, t, TRUE, <<>>, <<>>, <<>>)
    /\ UNCHANGED <<bankroll, active_orders, history, nOps, STATS_FILE>>
    /\ TaskFrame

\* place_order returns to the loop body, which goes on to its next await
PoReturn(t) ==
    /\ At(t, "po_return")
    /\ tasks' = Move(t, "await", Loc(t))
    /\ last' = Op("place_order", Loc(t).match_id, Loc(t).ret, TRUE, <<>>,
                  <<>>, [at_call |-> Loc(t).at_call,
                         selection |-> Loc(t).selection,
                         odds |-> Loc(t).odds,
                         stake_pct |-> Loc(t).stake_pct])
    /\ UNCHANGED <<bankroll, active_orders, ledger, history, nOps,
                   STATS_FILE>>
    /\ TaskFrame

\* save_state, open(STATS_FILE, 'w'): the file is truncated
SaveOpen(t) ==
    /\ At(t, "save_open")
    /\ STATS_FILE' = Torn
    /\ tasks' = Move(t, "save_dump", Loc(t))
    /\ last' = Op("step", 0, t, TRUE, <<>>, <<>>, <<>>)
    /\ UNCHANGED <<bankroll, active_orders, ledger, history, nOps>>
    /\ TaskFrame

\* save_state, json.dump of the three fields runs to its end
SaveDump(t) ==
    /\ At(t, "save_dump")
    /\ STATS_FILE' = Saved(PT)
    /\ tasks' = Move(t, Loc(t).after, Loc(t))
    /\ last' = Op("step", 0, t, TRUE, <<>>, <<>>, <<>>)
    /\ UNCHANGED <<bankroll, active_orders, ledger, history, nOps>>
    /\ TaskFrame

\* the ids of a set in ascending order
RECURSIVE Ascending(_)
Ascending(ids) ==
    IF ids = {} THEN <<>>
    ELSE LET Least(x) == <<x>> \o Ascending(ids \ {x})
         IN  Least(CHOOSE x \in ids : \A y \in ids : x <= y)

\* settle_pending_records up to its request: the ids of the pending records
SpStart(t) ==
    /\ t = "settle" /\ At(t, "await") /\ nOps < MaxWakes
    /\ \E pending_ids \in
           {{history[i].match_id : i \in
                {j \in DOMAIN history : history[j].result = "Pending"}}} :
          tasks' = IF pending_ids = {}
                   THEN Move(t, "await", NoLocals)
                   ELSE Move(t, "await_resp",
                             [NoLocals EXCEPT !.pending_ids = pending_ids])
    /\ nOps' = nOps + 1
    /\ last' = Op("wake", 0, t, TRUE, <<>>, <<>>, <<>>)
    /\ UNCHANGED <<bankroll, active_orders, ledger, history, STATS_FILE>>
    /\ TaskFrame

\* settle_pending_records from the response to the end of the record loop
SpRecords(t) ==
    /\ At(t, "await_resp")
    /\ \E finished_ids \in
           {{f \in Loc(t).pending_ids : feed[f].status = "FT"}} :
          /\ history' = [i \in DOMAIN history |->
                            SettleRecord(history[i], finished_ids, feed)]
          /\ tasks' = Move(t, "sp_next",
                [Loc(t) EXCEPT !.saved_history = history, !.todo =
                    [k \in DOMAIN Ascending(finished_ids) |->
                        [fid |-> Ascending(finished_ids)[k],
                         score |-> feed[Ascending(finished_ids)[k]].score]]])
    /\ last' = Op("step", 0, t, TRUE, <<>>, <<>>, <<>>)
    /\ UNCHANGED <<bankroll, active_orders, ledger, nOps, STATS_FILE>>
    /\ TaskFrame

\* the paper-trading loop: the next finished fixture, or the return
SpNext(t) ==
    /\ At(t, "sp_next")
    /\ tasks' = IF Loc(t).todo = <<>>
                THEN Move(t, "await", NoLocals)
                ELSE Move(t, "sm_loop",
                          [Loc(t) EXCEPT
                              !.match_id = Head(Loc(t).todo).fid,
                              !.score = Head(Loc(t).todo).score,
                              !.idx = 1, !.to_remove = {},
                              !.settled_count = 0, !.at_call = PT])
    /\ last' = Op("step", 0, t, TRUE, <<>>, <<>>, <<>>)
    /\ UNCHANGED <<bankroll, active_orders, ledger, history, nOps,
                   STATS_FILE>>
    /\ TaskFrame

\* settle_match, the head of the loop over active_orders
SmLoop(t) ==
    /\ At(t, "sm_loop")
    /\ tasks' = IF Loc(t).idx > Len(active_orders)
                THEN Move(t, "sm_remove", Loc(t))
                ELSE IF active_orders[Loc(t).idx].match_id = Loc(t).match_id
                THEN Move(t, "sm_credit", Loc(t))
                ELSE Move(t, "sm_loop", [Loc(t) EXCEPT !.idx = @ + 1])
    /\ last' = Op("step", 0, t, TRUE, <<>>, <<>>, <<>>)
    /\ UNCHANGED <<bankroll, active_orders, ledger, history, nOps,
                   STATS_FILE>>
    /\ TaskFrame

\* settle_match, _calculate_pnl and the credit of return_amount
SmCredit(t) ==
    /\ At(t, "sm_credit")
    /\ Loc(t).idx <= Len(active_orders)
    /\ \E res \in {_calculate_pnl(active_orders[Loc(t).idx],
                                  Loc(t).score[1], Loc(t).score[2])} :
          \E return_amount \in {active_orders[Loc(t).idx].stake + res[1]} :
             /\ bankroll' = IF return_amount > 0
                            THEN bankroll + return_amount ELSE bankroll
             /\ tasks' = Move(t, "sm_ledger",
                              [Loc(t) EXCEPT !.stake_amount = return_amount,
                                             !.ret = res[2]])
    /\ last' = Op("step", 0, t, TRUE, <<>>, <<>>, <<>>)
    /\ UNCHANGED <<active_orders, ledger, history, nOps, STATS_FILE>>
    /\ TaskFrame

\* settle_match, the ledger entry and to_remove_indices.append(idx)
SmLedger(t) ==
    /\ At(t, "sm_ledger")
    /\ ledger' = _add_ledger_entry(ledger, bankroll, Loc(t).ret,
                                   Loc(t).stake_amount)
    /\ tasks' = Move(t, "sm_loop",
                     [Loc(t) EXCEPT !.to_remove = @ \cup {Loc(t).idx},
                                    !.settled_count = @ + 1,
                                    !.idx = @ + 1])
    /\ last' = Op("step", 0, t, TRUE, <<>>, <<>>, <<>>)
    /\ UNCHANGED <<bankroll, active_orders, history, nOps, STATS_FILE>>
    /\ TaskFrame

\* del self.active_orders[i] for the indices collected
RECURSIVE DeleteIndices(_, _)
DeleteIndices(ao, idxs) ==
    IF ao = <<>> THEN <<>>
    ELSE LET Rest(front) == IF Len(ao) \in idxs THEN front
                            ELSE Append(front, ao[Len(ao)])
         IN  Rest(DeleteIndices(SubSeq(ao, 1, Len(ao) - 1), idxs))

\* settle_match, the removal of the settled orders
SmRemove(t) ==
    /\ At(t, "sm_remove")
    /\ active_orders' = DeleteIndices(active_orders, Loc(t).to_remove)
    /\ tasks' = IF Loc(t).settled_count > 0
                THEN Move(t, "save_open", [Loc(t) EXCEPT !.after = "sm_return"])
                ELSE Move(t, "sm_return", Loc(t))
    /\ last' = Op("step", 0, t, TRUE, <<>>, <<>>, <<>>)
    /\ UNCHANGED <<bankroll, ledger, history, nOps, STATS_FILE>>
    /\ TaskFrame

\* settle_match returns to the paper-trading loop
SmReturn(t) ==
    /\ At(t, "sm_return")
    /\ tasks' = Move(t, "sp_next", [Loc(t) EXCEPT !.todo = Tail(@)])
    /\ last' = Op("settle_match", Loc(t).match_id, "", TRUE, <<>>, <<>>,
                  [at_call |-> Loc(t).at_call, score |-> Loc(t).score])
    /\ UNCHANGED <<bankroll, active_orders, ledger, history, nOps,
                   STATS_FILE>>
    /\ TaskFrame

NextTasks ==
    \/ \E t \in Tasks :
          \/ PollWake(t) \/ PoCheck(t) \/ PoStake(t) \/ PoDeduct(t)
          \/ PoAppend(t) \/ PoLedger(t) \/ PoReturn(t)
          \/ SaveOpen(t) \/ SaveDump(t)
          \/ SpStart(t) \/ SpRecords(t) \/ SpNext(t)
          \/ SmLoop(t) \/ SmCredit(t) \/ SmLedger(t) \/ SmRemove(t)
          \/ SmReturn(t)
    \/ \E f \in Fixtures : Finish(f)

SpecTasks == Init /\ [][NextTasks]_vars

-----------------------------------------------------------------------------
(* One polling cycle of poll_live_data_task over all live fixtures *)

MaxCycles == 2
ElapseStep == 160
MaxElapsed == 2 * ElapseStep
no_odds_timeout == 300

\* the no-odds tracker of the loop body: match_odds empty starts or keeps
\* the timer, and hides the fixture once it has run for more than 300 s;
\* odds quoted delete the timer
TrackOdds(tracker, fixture_id, has_odds, now_ts) ==
    LET Started(tr) ==
            [tracker |-> tr,
             hidden |-> now_ts - tr[fixture_id] > no_odds_timeout]
    IN  IF ~has_odds
        THEN Started(IF fixture_id \in DOMAIN tracker THEN tracker
                     ELSE (fixture_id :> now_ts) @@ tracker)
        ELSE [tracker |-> [g \in DOMAIN tracker \ {fixture_id} |->
                              tracker[g]],
              hidden |-> FALSE]

\* where the processing of a fixture raises: nowhere; at an unprotected
\* statement before the tracker (item parsing); at an unprotected
\* statement after check_safety (statistics and pricing); inside the
\* try block of the trading sections
Faults == {"parse", "stats", "engine"}

\* the state threaded through the for loop of a cycle
CycleState(pt, hist, ms, tracker, parsed_list, raised, attempts, adds) ==
    [pt |-> pt, history |-> hist, ms |-> ms, tracker |-> tracker,
     parsed_list |-> parsed_list, raised |-> raised, attempts |-> attempts,
     adds |-> adds]

\* the entry of a fixture in parsed_list
Entry(fixture_id, status_short) == [id |-> fixture_id, status |-> status_short]

\* the loop body from the consensus check to the append, for a fixture
\* that is not hidden; r is the outcome of the body without fault, r0 the
\* outcome of the body without its trading sections
Listed(st, fixture_id, fault, r, r0) ==
    IF r.trust = "CONFLICT_SCORE"
    THEN CycleState(st.pt, st.history, st.ms, st.tracker,
                    Append(st.parsed_list, Entry(fixture_id, "ERR")),
                    FALSE, st.attempts, st.adds)
    ELSE IF fault = "stats"
    THEN CycleState(st.pt, st.history, r0.ms, st.tracker, st.parsed_list,
                    TRUE, st.attempts, st.adds)
    ELSE IF fault = "engine"
    THEN CycleState(st.pt, st.history, r0.ms, st.tracker,
                    Append(st.parsed_list, Entry(fixture_id, "LIVE")),
                    FALSE, st.attempts, st.adds)
    ELSE CycleState(r.pt, r.history, r.ms, st.tracker,
                    Append(st.parsed_list, Entry(fixture_id, "LIVE")),
                    FALSE, st.attempts \o r.attempts, st.adds \o r.adds)

\* the whole loop body for one item of raw_matches
LoopBody(st, fixture_id, goals, inp, t) ==
    LET Tracked(tr) ==
            IF tr.hidden
            THEN CycleState(st.pt, st.history, st.ms, tr.tracker,
                            st.parsed_list, FALSE, st.attempts, st.adds)
            ELSE Listed([st EXCEPT !.tracker = tr.tracker], fixture_id,
                        inp.fault,
                        PollBody(st.pt, st.history, st.ms, fixture_id, goals,
                                 inp.secondary, inp.ah, inp.ou, t),
                        PollBody(st.pt, st.history, st.ms, fixture_id, goals,
                                 inp.secondary, NoQuote, NoOuQuote, t))
    IN  IF inp.fault = "parse" THEN [st EXCEPT !.raised = TRUE]
        ELSE Tracked(TrackOdds(st.tracker, fixture_id,
                               inp.ah.present \/ inp.ou.present, t))

\* the for loop over raw_matches (live fixtures in ascending id), left at
\* the first exception that reaches the handler of the cycle
RECURSIVE RunCycle(_, _, _, _, _)
RunCycle(st, ids, fd, inputs, t) ==
    IF ids = <<>> \/ st.raised THEN st
    ELSE RunCycle(LoopBody(st, Head(ids), fd[Head(ids)].score,
                           inputs[Head(ids)], t),
                  Tail(ids), fd, inputs, t)

\* the item of fixture f in one cycle: its quotes, and the statement at
\* which its processing raises
Item(f, ah, ou, fault) ==
    [secondary |-> [present |-> FALSE, goals |-> feed[f].score], ah |-> ah,
     ou |-> ou, fault |-> fault]

\* the markets the feed quotes for each fixture of a cycle
Quoted(inputs) ==
    [f \in DOMAIN inputs |->
        {m \in {"AH", "OU"} : IF m = "AH" THEN inputs[f].ah.present
                                          ELSE inputs[f].ou.present}]

LiveIds == {f \in Fixtures : feed[f].status = "LIVE"}

\* one iteration of the while loop of poll_live_data_task
PollCycle ==
    /\ nOps < MaxCycles
    /\ nOps' = nOps + 1
    /\ \/ \* the fetch fails or answers with a status other than 200
          /\ UNCHANGED <<bankroll, active_orders, ledger, history,
                         match_states, NO_ODDS_TRACKER, LIVE_INPLAY_CACHE>>
          /\ last' = Op("cycle", 0, "", TRUE, <<>>, <<>>,
                        [fetch_ok |-> FALSE,
                         quoted |-> [f \in Fixtures |-> {}],
                         live |-> LiveIds, raised |-> FALSE, bad |-> 0])
       \/ \E bad \in Fixtures \cup {0}, fault \in Faults,
             ah1 \in AhQuotes(1), ah2 \in AhQuotes(2), ou1 \in OuQuotes,
             ou2 \in OuQuotes :
          \E inputs \in
              {[f \in Fixtures |->
                  Item(f, IF f = 1 THEN ah1 ELSE ah2,
                       IF f = 1 THEN ou1 ELSE ou2,
                       IF f = bad THEN fault ELSE "none")]} :
          \E st \in {RunCycle(CycleState(PT, history, match_states,
                                         NO_ODDS_TRACKER, <<>>, FALSE,
                                         <<>>, <<>>),
                              Ascending(LiveIds), feed, inputs, now)} :
             /\ bankroll' = st.pt.bankroll
             /\ active_orders' = st.pt.active_orders
             /\ ledger' = st.pt.ledger
             /\ history' = st.history
             /\ match_states' = st.ms
             /\ NO_ODDS_TRACKER' = st.tracker
             /\ LIVE_INPLAY_CACHE' =
                   IF st.raised THEN LIVE_INPLAY_CACHE ELSE st.parsed_list
             /\ last' = Op("cycle", 0, "", TRUE, st.attempts, st.adds,
                           [fetch_ok |-> TRUE, quoted |-> Quoted(inputs),
                            live |-> LiveIds, raised |-> st.raised,
                            bad |-> IF bad \in LiveIds THEN bad ELSE 0])
    /\ UNCHANGED <<feed, now, call, tasks, STATS_FILE>>

\* time passes between two cycles that reach the loop body (the sleep of
\* 16 s, failed fetches, the nightly pause)
Elapse ==
    /\ now + ElapseStep <= StartTime + MaxElapsed
    /\ now' = now + ElapseStep
    /\ last' = Op("env", 0, "", TRUE, <<>>, <<>>, <<>>)
    /\ UNCHANGED <<bankroll, active_orders, ledger, history, match_states,
                   feed, nOps, call, tasks, STATS_FILE, LIVE_INPLAY_CACHE,
                   NO_ODDS_TRACKER>>

NextCycle ==
    \/ PollCycle
    \/ Elapse
    \/ \E f \in Fixtures : Finish(f)

SpecCycle == Init /\ [][NextCycle]_vars

-----------------------------------------------------------------------------
(* The same tasks with failing writes and a process that stops and is      *)
(* started again                                                           *)

\* save_state, open() raises: the bare except passes, the file is as before
SaveOpenFails(t) ==
    /\ At(t, "save_open")
    /\ tasks' = Move(t, Loc(t).after, Loc(t))
    /\ last' = Op("step", 0, t, TRUE, <<>>, <<>>, <<>>)
    /\ UNCHANGED <<bankroll, active_orders, ledger, history, nOps,
                   STATS_FILE>>
    /\ TaskFrame

\* save_state, json.dump raises part-way: the bare except passes
SaveDumpFails(t) ==
    /\ At(t, "save_dump")
    /\ tasks' = Move(t, Loc(t).after, Loc(t))
    /\ last' = Op("step", 0, t, TRUE, <<>>, <<>>, <<>>)
    /\ UNCHANGED <<bankroll, active_orders, ledger, history, nOps,
                   STATS_FILE>>
    /\ TaskFrame

\* PaperTrader.load_state: the fields of the file, or reset() when json.load
\* raises
load_state(file) == IF file.complete THEN file.data ELSE reset

\* recommendation_history.json: written by every add_recommendation_record
\* and at the end of settle_pending_records
HistoryFile ==
    IF tasks.pc["settle"] \notin {"await", "await_resp"}
    THEN tasks.loc["settle"].saved_history ELSE history

\* the process stops at any statement and is started again: the globals of
\* main.py are built anew, PaperTrader.__init__ calls load_state
Crash ==
    /\ \E pt \in {load_state(STATS_FILE)} :
          /\ bankroll' = pt.bankroll
          /\ active_orders' = pt.active_orders
          /\ ledger' = pt.ledger
          /\ STATS_FILE' = IF STATS_FILE.complete THEN STATS_FILE
                           ELSE Saved(pt)
    /\ history' = HistoryFile
    /\ tasks' = NoTasks
    /\ match_states' = <<>>
    /\ LIVE_INPLAY_CACHE' = <<>>
    /\ NO_ODDS_TRACKER' = <<>>
    /\ last' = Op("crash", 0, "", TRUE, <<>>, <<>>,
                  [before |-> PT, pc |-> tasks.pc])
    /\ UNCHANGED <<feed, now, nOps, call>>

NextCrash ==
    \/ NextTasks
    \/ \E t \in Tasks : SaveOpenFails(t) \/ SaveDumpFails(t)
    \/ Crash

SpecCrash == Init /\ [][NextCrash]_vars

-----------------------------------------------------------------------------
(* Settlement run repeatedly on two records that agree on the placed score,  *)
(* the final score, the line and the selection                               *)

MaxRuns == 2

\* a final score that can follow the placed score sc
FinalsAfter(sc) == {fs \in Scores : fs[1] >= sc[1] /\ fs[2] >= sc[2]}

\* the recommendation record of fixture f for a handicap bet
HdpRecordOf(f, l, s, sc) ==
    [key |-> RecKey(f, "AH", l, s), match_id |-> f, score_at_rec |-> sc,
     selection |-> s, handicap |-> l, bet_type |-> DisplayBet(l, s),
     result |-> "Pending", final_score |-> <<>>]

\* the recommendation record of fixture f for a totals bet
OuRecordOf(f, l, s, sc) ==
    [key |-> RecKey(f, "OU", l, s), match_id |-> f, score_at_rec |-> sc,
     selection |-> s, handicap |-> l, bet_type |-> s,
     result |-> "Pending", final_score |-> <<>>]

\* the open paper order of fixture f for a handicap bet
OrderOf(f, l, s, sc, odds, stake) ==
    [match_id |-> f,
     selection |-> [type |-> "AH", line |-> l, side |-> s,
                    start_score |-> sc],
     odds |-> odds, stake |-> stake, status |-> "OPEN"]

PureCall(fn, recs, final) ==
    [fn |-> fn, recs |-> recs, final |-> final, runs |-> <<0, 0>>,
     outs |-> <<>>]

InitPure ==
    /\ InitBase
    /\ \E sc \in Scores : \E final \in FinalsAfter(sc) :
          \/ \E l \in HdpLines, s \in {"Home", "Away"} :
                call = PureCall("hdp", <<HdpRecordOf(1, l, s, sc),
                                        HdpRecordOf(2, l, s, sc)>>, final)
          \/ \E l \in OuLines, s \in {"Over", "Under"} :
                call = PureCall("ou", <<OuRecordOf(1, l, s, sc),
                                       OuRecordOf(2, l, s, sc)>>, final)
          \/ \E l \in HdpLines, s \in {"Home", "Away"} :
                call = PureCall("pnl",
                                <<OrderOf(1, l, s, sc, 190, 1000 * MoneyScale),
                                  OrderOf(2, l, s, sc, 210, 50 * MoneyScale)>>,
                                final)

\* one more settlement of record i by settle_one_hdp_record
PureHdp(i) ==
    /\ call.fn = "hdp" /\ call.runs[i] < MaxRuns
    /\ \E r \in {settle_one_hdp_record(
                     [call.recs[i] EXCEPT !.final_score = call.final],
                     call.final[1], call.final[2])} :
          call' = [call EXCEPT !.recs[i] = r, !.runs[i] = @ + 1,
                               !.outs = Append(@, r.result)]
    /\ UNCHANGED <<bankroll, active_orders, ledger, history, match_states,
                   feed, now, nOps, last>>
    /\ UNCHANGED <<tasks, STATS_FILE, LIVE_INPLAY_CACHE, NO_ODDS_TRACKER>>

\* one more settlement of record i by settle_one_ou_record
PureOu(i) ==
    /\ call.fn = "ou" /\ call.runs[i] < MaxRuns
    /\ \E r \in {settle_one_ou_record(
                     [call.recs[i] EXCEPT !.final_score = call.final],
                     call.final[1], call.final[2])} :
          call' = [call EXCEPT !.recs[i] = r, !.runs[i] = @ + 1,
                               !.outs = Append(@, r.result)]
    /\ UNCHANGED <<bankroll, active_orders, ledger, history, match_states,
                   feed, now, nOps, last>>
    /\ UNCHANGED <<tasks, STATS_FILE, LIVE_INPLAY_CACHE, NO_ODDS_TRACKER>>

\* one more evaluation of order i by _calculate_pnl
PurePnl(i) ==
    /\ call.fn = "pnl" /\ call.runs[i] < MaxRuns
    /\ \E r \in {_calculate_pnl(call.recs[i], call.final[1],
                                call.final[2])} :
          call' = [call EXCEPT !.runs[i] = @ + 1,
                               !.outs = Append(@, r[2])]
    /\ UNCHANGED <<bankroll, active_orders, ledger, history, match_states,
                   feed, now, nOps, last>>
    /\ UNCHANGED <<tasks, STATS_FILE, LIVE_INPLAY_CACHE, NO_ODDS_TRACKER>>

NextPure ==
    \/ \E i \in 1..2 : PureHdp(i)
    \/ \E i \in 1..2 : PureOu(i)
    \/ \E i \in 1..2 : PurePnl(i)
    \/ Tick

SpecPure == InitPure /\ [][NextPure]_vars

-----------------------------------------------------------------------------
(* The staking and signal functions applied to every input of a grid *)

\* probabilities are pn / ProbDen for pn in -1 .. ProbDen
ProbDen == 20
ProbNums == (0 - 1)..ProbDen

\* a market or fair odds value that is None or "-"
Missing == 0 - 999

\* market odds in hundredths: missing, zero, at and around 1.01, ordinary
MarketOddsSet == {Missing, 0, 100, 101, 102, 150, 190, 200, 203, 210, 300}

\* fair odds in hundredths: missing, negative, zero, ordinary
FairOddsSet == {Missing, 0 - 100, 0, 100, 150, 200, 250}

\* the outcome of a call: it raised, or it returned value (and, for
\* analyze, a VALUE BET signal or None)
Raised == [raised |-> TRUE, value |-> 0, signal |-> FALSE]
Returned(value, signal) == [raised |-> FALSE, value |-> value, signal |-> signal]

\* KellyStaking.calculate_stake called with a market_odds that may be
\* missing: the comparison market_odds <= 1.01 raises TypeError
StakeOutcome(pn, pd, market_odds) ==
    IF market_odds = Missing THEN Raised
    ELSE Returned(calculate_stake(pn, pd, market_odds), FALSE)

\* TradingSignalGenerator.calculate_kelly_stake for probability = pn/pd;
\* returns the stake percentage in units of 0.01 %
calculate_kelly_stake(pn, pd, market_odds) ==
    LET num == pn * market_odds - 100 * pd       \* f = num / den
        den == pd * (market_odds - 100)
    IN  IF market_odds <= 100 THEN 0
        ELSE IF num <= 0 THEN 0
        ELSE IF num * 30 >= 5 * den THEN 500
        ELSE RoundHalfEven(num * 30 * 100, den)

\* calculate_kelly_stake called with a market_odds that may be missing
KellyStakeOutcome(pn, pd, market_odds) ==
    IF market_odds = Missing THEN Raised
    ELSE Returned(calculate_kelly_stake(pn, pd, market_odds), FALSE)

\* SignalGenerator.analyze at the default threshold: missing or zero
\* market odds return None before the try; inside it float(None) and the
\* division by zero are swallowed
AnalyzeOutcome(fair_odds, market_odds) ==
    IF market_odds = Missing \/ market_odds = 0 THEN Returned(0, FALSE)
    ELSE IF fair_odds = Missing THEN Returned(0, FALSE)
    ELSE Returned(0, analyze(FairOdds(fair_odds, 100), market_odds, 5))

\* TradingSignalGenerator(value_threshold=0.05)
value_threshold == 5

\* TradingSignalGenerator.calculate_edge: the edge is returned as the
\* fraction value / fair_odds; signal is edge >= value_threshold, the
\* test its callers make for a VALUE BET
calculate_edge(fair_odds, market_odds) ==
    IF fair_odds = Missing THEN Raised
    ELSE IF fair_odds <= 0 THEN Returned(0, FALSE)
    ELSE IF market_odds = Missing THEN Raised
    ELSE Returned(market_odds - fair_odds,
                  100 * (market_odds - fair_odds)
                      >= value_threshold * fair_odds)

KellyCall(fn, pn, market_odds, fair_odds) ==
    [fn |-> fn, pn |-> pn, market_odds |-> market_odds,
     fair_odds |-> fair_odds, out |-> <<>>, done |-> FALSE]

InitKelly ==
    /\ InitBase
    /\ \E market_odds \in MarketOddsSet :
          \/ \E p1 \in ProbNums : \E p2 \in p1..ProbDen :
             \E fn \in {"calculate_stake", "calculate_kelly_stake"} :
                call = KellyCall(fn, <<p1, p2>>, market_odds, 0)
          \/ \E fair_odds \in FairOddsSet :
             \E fn \in {"analyze", "calculate_edge"} :
                call = KellyCall(fn, <<>>, market_odds, fair_odds)

\* the result of the call is the state of the call record only
Answer(out) ==
    /\ call' = [call EXCEPT !.out = out, !.done = TRUE]
    /\ UNCHANGED <<bankroll, active_orders, ledger, history, match_states,
                   feed, now, nOps, last>>
    /\ UNCHANGED <<tasks, STATS_FILE, LIVE_INPLAY_CACHE, NO_ODDS_TRACKER>>

\* kelly_engine.calculate_stake for the two probabilities of the call
StakeCall ==
    /\ call.fn = "calculate_stake" /\ ~call.done
    /\ Answer([i \in 1..2 |->
                  StakeOutcome(call.pn[i], ProbDen, call.market_odds)])

\* calculate_kelly_stake for the two probabilities of the call
KellyStakeCall ==
    /\ call.fn = "calculate_kelly_stake" /\ ~call.done
    /\ Answer([i \in 1..2 |->
                  KellyStakeOutcome(call.pn[i], ProbDen, call.market_odds)])

\* signal_gen.analyze(fair_odds, market_odds)
AnalyzeCall ==
    /\ call.fn = "analyze" /\ ~call.done
    /\ Answer(<<AnalyzeOutcome(call.fair_odds, call.market_odds)>>)

\* calculate_edge(fair_odds, market_odds)
EdgeCall ==
    /\ call.fn = "calculate_edge" /\ ~call.done
    /\ Answer(<<calculate_edge(call.fair_odds, call.market_odds)>>)

NextKelly == StakeCall \/ KellyStakeCall \/ AnalyzeCall \/ EdgeCall

SpecKelly == InitKelly /\ [][NextKelly]_vars

-----------------------------------------------------------------------------
(* LatencyGuard.check_safety called with data of any age *)

MaxChecks == 3

\* the ages of the data passed to check_safety: fresh, at the limit, stale
DataAges == {0, max_latency, max_latency + 1, freeze_time + max_latency}

\* the scores reported for a fixture
GuardScores == {<<0, 0>>, <<1, 0>>}

\* latency_guard.check_safety(match_id, current_score, data_timestamp)
CheckSafetyCall ==
    /\ nOps < MaxChecks
    /\ nOps' = nOps + 1
    /\ \E f \in Fixtures, current_score \in GuardScores, age \in DataAges :
       \E r \in {check_safety(match_states, f, current_score, now - age,
                              now)} :
          /\ match_states' = r.ms
          /\ last' = Op("check_safety", f, r.reason, r.safe, <<>>, <<>>,
                        [current_score |-> current_score,
                         data_timestamp |-> now - age, t |-> now])
    /\ UNCHANGED <<bankroll, active_orders, ledger, history, feed, now, call>>
    /\ UNCHANGED <<tasks, STATS_FILE, LIVE_INPLAY_CACHE, NO_ODDS_TRACKER>>

\* the clock between two checks, in steps of half the freeze window
GuardTick ==
    /\ now + freeze_time \div 2 <= StartTime + 2 * freeze_time
    /\ now' = now + freeze_time \div 2
    /\ last' = Op("env", 0, "", TRUE, <<>>, <<>>, <<>>)
    /\ UNCHANGED <<bankroll, active_orders, ledger, history, match_states,
                   feed, nOps, call>>
    /\ UNCHANGED <<tasks, STATS_FILE, LIVE_INPLAY_CACHE, NO_ODDS_TRACKER>>

NextGuard == CheckSafetyCall \/ GuardTick

SpecGuard == Init /\ [][NextGuard]_vars

-----------------------------------------------------------------------------
(* One wager settled as a recommendation record and as a paper order *)

\* the paper order process_bet_signal / process_ou_signal place next to
\* the record rec
OrderFor(rec, market) ==
    [match_id |-> rec.match_id,
     selection |-> [type |-> market, line |-> rec.handicap,
                    side |-> rec.selection,
                    start_score |-> rec.score_at_rec],
     odds |-> 190, stake |-> 1000 * MoneyScale, status |-> "OPEN"]

RuleCall(rec, market, final) ==
    [fn |-> "rule", rec |-> rec, order |-> OrderFor(rec, market),
     final |-> final, result |-> "Pending", paid |-> "OPEN"]

InitRule ==
    /\ InitBase
    /\ \E sc \in Scores : \E final \in FinalsAfter(sc) :
          \/ \E l \in HdpLines, s \in {"Home", "Away"} :
                call = RuleCall(HdpRecordOf(1, l, s, sc), "AH", final)
          \/ \E l \in OuLines, s \in {"Over", "Under"} :
                call = RuleCall(OuRecordOf(1, l, s, sc), "OU", final)

\* the record loop of settle_pending_records settles the record
RuleRecord ==
    /\ call.fn = "rule" /\ call.result = "Pending"
    /\ \E r \in {SettleRecord(call.rec, {call.rec.match_id},
                              [f \in Fixtures |->
                                  [status |-> "FT", score |-> call.final]])} :
          call' = [call EXCEPT !.rec = r, !.result = r.result]
    /\ UNCHANGED <<bankroll, active_orders, ledger, history, match_states,
                   feed, now, nOps, last>>
    /\ UNCHANGED <<tasks, STATS_FILE, LIVE_INPLAY_CACHE, NO_ODDS_TRACKER>>

\* settle_match evaluates the order
RuleOrder ==
    /\ call.fn = "rule" /\ call.paid = "OPEN"
    /\ \E r \in {_calculate_pnl(call.order, call.final[1], call.final[2])} :
          call' = [call EXCEPT !.paid = r[2]]
    /\ UNCHANGED <<bankroll, active_orders, ledger, history, match_states,
                   feed, now, nOps, last>>
    /\ UNCHANGED <<tasks, STATS_FILE, LIVE_INPLAY_CACHE, NO_ODDS_TRACKER>>

NextRule == RuleRecord \/ RuleOrder

SpecRule == InitRule /\ [][NextRule]_vars

-----------------------------------------------------------------------------
(* place_order and settle_match with stakes up to the whole bankroll *)

MaxSolvOps == 4

\* orders are tried while the bankroll is at most one and a half times
\* the initial one
MaxBankroll == 3 * (InitialBankroll \div 2) * MoneyScale

\* stake percentages in units of 0.01 %: the floor, an ordinary Kelly
\* stake, the whole bankroll, more than the bankroll
SolvPcts == {1, 125, 10000, 10001}
SolvSelection ==
    [type |-> "AH", line |-> 0 - 2 * Quarter, side |-> "Home",
     start_score |-> <<0, 0>>]
SolvScores == {<<0, 0>>, <<1, 0>>}

\* paper_engine.place_order
SolvPlace ==
    /\ nOps < MaxSolvOps
    /\ bankroll <= MaxBankroll
    /\ nOps' = nOps + 1
    /\ \E match_id \in Fixtures, stake_pct \in SolvPcts :
       \E r \in {place_order(PT, match_id, SolvSelection, 190, stake_pct)} :
          /\ bankroll' = r.pt.bankroll
          /\ active_orders' = r.pt.active_orders
          /\ ledger' = r.pt.ledger
          /\ last' = Op("place_order", match_id, r.msg, TRUE,
                        << [key |-> RecKey(match_id, "AH", SolvSelection.line,
                                           "Home"),
                            ok |-> r.ok] >>, <<>>,
                        [selection |-> SolvSelection, odds |-> 190,
                         stake_pct |-> stake_pct])
    /\ UNCHANGED <<history, match_states, feed, now, call>>
    /\ UNCHANGED <<tasks, STATS_FILE, LIVE_INPLAY_CACHE, NO_ODDS_TRACKER>>

\* paper_engine.settle_match
SolvSettle ==
    /\ nOps < MaxSolvOps
    /\ nOps' = nOps + 1
    /\ \E match_id \in Fixtures, score \in SolvScores :
       \E r \in {settle_match(PT, match_id, score[1], score[2])} :
          /\ bankroll' = r.bankroll
          /\ active_orders' = r.active_orders
          /\ ledger' = r.ledger
          /\ last' = Op("settle_match", match_id, "", TRUE, <<>>, <<>>, score)
    /\ UNCHANGED <<history, match_states, feed, now, call>>
    /\ UNCHANGED <<tasks, STATS_FILE, LIVE_INPLAY_CACHE, NO_ODDS_TRACKER>>

NextSolv == SolvPlace \/ SolvSettle

SpecSolv == Init /\ [][NextSolv]_vars

-----------------------------------------------------------------------------
(* The settlement task under fair scheduling *)

\* poll_settlement_task: a run of settle_pending_records whose fixtures
\* request is answered (request_ok) or fails
SettleRun(request_ok) ==
    /\ \E r \in {settle_pending_records(PT, history, feed, request_ok)} :
          /\ bankroll' = r.pt.bankroll
          /\ active_orders' = r.pt.active_orders
          /\ ledger' = r.pt.ledger
          /\ history' = r.history
    /\ last' = Op("settle", 0, "", TRUE, <<>>, <<>>, request_ok)
    /\ UNCHANGED <<match_states, feed, now, nOps, call>>
    /\ UNCHANGED <<tasks, STATS_FILE, LIVE_INPLAY_CACHE, NO_ODDS_TRACKER>>

SettleAnswered == SettleRun(TRUE)

SettleFailed == SettleRun(FALSE)

\* clear_history_api: POST /api/history/clear
clear_history_api ==
    /\ history' = <<>>
    /\ last' = Op("clear", 0, "", TRUE, <<>>, <<>>, <<>>)
    /\ UNCHANGED <<bankroll, active_orders, ledger, match_states, feed, now,
                   nOps, call>>
    /\ UNCHANGED <<tasks, STATS_FILE, LIVE_INPLAY_CACHE, NO_ODDS_TRACKER>>

NextLive ==
    \/ \E f \in Fixtures : Poll(f)
    \/ SettleAnswered
    \/ SettleFailed
    \/ clear_history_api
    \/ \E f \in Fixtures : Goal(f)
    \/ \E f \in Fixtures : Finish(f)

\* the settlement task wakes every 60 s for as long as the service runs, and
\* the fixtures request keeps being answered
SpecLive == Init /\ [][NextLive]_vars /\ WF_vars(SettleAnswered)

-----------------------------------------------------------------------------
(* The remaining-goals rates: LivePricing.get_remaining_xg and
   LiveProbability.calculate_current_lambda *)

\* rates are in units of 0.0001 goal, multipliers in thousandths
RateScale == 10000
Mil == 1000

\* the largest goal difference of the scores tried
MaxDiff == 3

Least(a, b) == IF a < b THEN a ELSE b
Greatest(a, b) == IF a > b THEN a ELSE b

\* x multiplied by a factor given in thousandths
Times(x, mil) == RoundHalfEven(x * mil, Mil)

RECURSIVE TimesAll(_, _)
TimesAll(x, mils) ==
    IF mils = <<>> THEN x ELSE TimesAll(Times(x, Head(mils)), Tail(mils))

\* the game-state multipliers with the boost of the side two behind given
\* to every side two or more behind
game_state_mult_TwoOrMore(minute, current_score) ==
    LET score_diff == current_score[1] - current_score[2]
    IN  IF minute > 60 /\ score_diff < 0
        THEN <<IF score_diff = -1 THEN 1150 ELSE 1100, 900>>
        ELSE IF minute > 60 /\ score_diff > 0
        THEN <<900, IF score_diff = 1 THEN 1150 ELSE 1100>>
        ELSE <<Mil, Mil>>

\* get_remaining_xg, "Game State Correction": <<gs_home_mult, gs_away_mult>>
game_state_mult(minute, current_score) ==
    LET score_diff == current_score[1] - current_score[2]
    IN  IF minute > 60 /\ score_diff < 0
        THEN <<IF score_diff = -1 THEN 1150
               ELSE IF score_diff = -2 THEN 1100 ELSE Mil, 900>>
        ELSE IF minute > 60 /\ score_diff > 0
        THEN <<900, IF score_diff = 1 THEN 1150
                    ELSE IF score_diff = 2 THEN 1100 ELSE Mil>>
        ELSE <<Mil, Mil>>

\* the factors looked up from the tables of live_engine.py for a fixture:
\* league_volatility, KEY_PLAYER_PENALTY flags, ref_modifier, fatigue
\* (thousandths of the 0..1 score), motivation, style clash, weather,
\* fortress bonus, transformer momentum (score 0..) and xT (score 0..)
Neutral ==
    [league_volatility |-> Mil, home_missing_keys |-> FALSE,
     away_missing_keys |-> FALSE, ref_modifier |-> Mil,
     home_fatigue |-> 0, away_fatigue |-> 0, h_mot_mod |-> Mil,
     a_mot_mod |-> Mil, clash |-> <<Mil, Mil>>, weather_mod |-> Mil,
     fortress_mod |-> Mil, home_transformer_mom |-> 0,
     away_transformer_mom |-> 0, home_xt |-> 0, away_xt |-> 0]

\* Eredivisie, referee Mateu Lahoz, tired visitors, a title race at
\* Galatasaray, counter against possession, rain, high momentum and threat
Lively ==
    [league_volatility |-> 1200, home_missing_keys |-> FALSE,
     away_missing_keys |-> FALSE, ref_modifier |-> 1400,
     home_fatigue |-> 0, away_fatigue |-> Mil, h_mot_mod |-> 1120,
     a_mot_mod |-> 1120, clash |-> <<1150, 950>>, weather_mod |-> 1050,
     fortress_mod |-> 1200, home_transformer_mom |-> 12,
     away_transformer_mom |-> 10, home_xt |-> 6, away_xt |-> 5]

\* Greek league, referee Orsato, key players missing, a friendly in snow
Dull ==
    [league_volatility |-> 820, home_missing_keys |-> TRUE,
     away_missing_keys |-> TRUE, ref_modifier |-> 900,
     home_fatigue |-> Mil, away_fatigue |-> Mil, h_mot_mod |-> 850,
     a_mot_mod |-> 850, clash |-> <<880, 900>>, weather_mod |-> 850,
     fortress_mod |-> Mil, home_transformer_mom |-> 0,
     away_transformer_mom |-> 0, home_xt |-> 0, away_xt |-> 0]

Conditions == {Neutral, Lively, Dull}

\* LivePricing.get_remaining_xg for pre-match rates base (home, away),
\* momentum factors mom (home, away) and the looked-up factors c
get_remaining_xg(base, minute, mom, current_score, c) ==
    LET time_remaining == 90 - minute
        intensity_mult == IF minute > 75 THEN 1200
                          ELSE IF minute > 40 /\ minute <= 45 THEN 1100
                          ELSE Mil
        t_home_mult == Mil + Least(c.home_transformer_mom, 10) * 20
        t_away_mult == Mil + Least(c.away_transformer_mom, 10) * 20
        xt_home_mult == Mil + Least(c.home_xt, 5) * 100
        xt_away_mult == Mil + Least(c.away_xt, 5) * 100
        gs == game_state_mult(minute, current_score)
        star_penalty_home == IF c.home_missing_keys THEN 820 ELSE Mil
        star_penalty_away == IF c.away_missing_keys THEN 820 ELSE Mil
        h_att_mod == Mil - (c.home_fatigue * 150) \div Mil
        h_def_mod == Mil + (c.home_fatigue * 150) \div Mil
        a_att_mod == Mil - (c.away_fatigue * 150) \div Mil
        a_def_mod == Mil + (c.away_fatigue * 150) \div Mil
        ratio(x) == RoundHalfEven(x * time_remaining, 90)
    IN  IF time_remaining <= 0 THEN <<0, 0>>
        ELSE <<TimesAll(ratio(base[1]),
                        <<mom[1], intensity_mult, gs[1],
                          c.league_volatility, star_penalty_home,
                          c.ref_modifier, h_att_mod, a_def_mod, c.h_mot_mod,
                          c.clash[1], c.weather_mod, c.fortress_mod,
                          t_home_mult, xt_home_mult>>),
               TimesAll(ratio(base[2]),
                        <<mom[2], intensity_mult, gs[2],
                          c.league_volatility, star_penalty_away,
                          c.ref_modifier, a_att_mod, h_def_mod, c.a_mot_mod,
                          c.clash[2], c.weather_mod,
                          t_away_mult, xt_away_mult>>)>>

\* 0.6 ** n and 1.2 ** n applied to a multiplier
RECURSIVE Power(_, _, _)
Power(x, mil, n) == IF n = 0 THEN x ELSE Power(Times(x, mil), mil, n - 1)

\* LiveProbability._apply_psychological_factor; reds = red cards (home, away)
_apply_psychological_factor(lambda, minute, score, reds) ==
    LET time_factor == Least(RoundHalfEven(minute * Mil, 90), Mil)
        score_diff == score[1] - score[2]
        sc == IF score_diff = 0
              THEN IF minute > 80
                   THEN <<Mil - Times(150, time_factor),
                          Mil - Times(150, time_factor)>>
                   ELSE <<1050, 1050>>
              ELSE IF score_diff = 1
              THEN <<Mil - Times(350, time_factor),
                     Mil + Times(400, time_factor)>>
              ELSE IF score_diff >= 2 THEN <<800, 900>>
              ELSE IF score_diff = -1
              THEN <<Mil + Times(450, time_factor),
                     Mil - Times(350, time_factor)>>
              ELSE <<900, 800>>
        h_multiplier == Power(Power(sc[1], 600, reds[1]), 1200, reds[2])
        a_multiplier == Power(Power(sc[2], 1200, reds[1]), 600, reds[2])
    IN  <<Times(lambda[1], Greatest(h_multiplier, 100)),
          Times(lambda[2], Greatest(a_multiplier, 100))>>

\* LiveProbability.calculate_current_lambda with the linear decay; mom is
\* the pair returned by calculate_momentum_factor
calculate_current_lambda(initial_xg, minute, mom, score, reds) ==
    LET remaining_time == Greatest(0, 90 - minute)
        decayed(x) == RoundHalfEven(x * remaining_time, 90)
        lambda == <<Times(decayed(initial_xg[1]), mom[1]),
                    Times(decayed(initial_xg[2]), mom[2])>>
        final == _apply_psychological_factor(lambda, minute, score, reds)
    IN  <<Greatest(10, Least(5 * RateScale, final[1])),
          Greatest(10, Least(5 * RateScale, final[2]))>>

\* pre-match rates: 0.5, 1.5 and 3.0 goals
BaseRates == {<<15000, 5000>>, <<15000, 12000>>, <<30000, 15000>>}

Minutes == {0, 45, 60, 61, 76, 89, 90}

RateScores ==
    {<<0, 0>>, <<1, 1>>} \cup
    UNION {{<<d, 0>>, <<0, d>>} : d \in 1..MaxDiff}

\* momentum factors of get_remaining_xg
MomentumFactors == {<<Mil, Mil>>, <<1500, 500>>}

\* momentum factors returned by calculate_momentum_factor (0.7 .. 1.3)
SmoothedFactors == {<<Mil, Mil>>, <<1300, 700>>}

RedCards == {<<0, 0>>, <<2, 0>>}

RateCall(fn, base, minute, mom, score, c) ==
    [fn |-> fn, base |-> base, minute |-> minute, mom |-> mom,
     score |-> score, c |-> c, gs |-> <<>>, out |-> <<>>, done |-> FALSE]

InitRates ==
    /\ InitBase
    /\ \E base \in BaseRates, minute \in Minutes, score \in RateScores :
          \/ \E mom \in MomentumFactors, c \in Conditions :
                call = RateCall("get_remaining_xg", base, minute, mom,
                                score, c)
          \/ \E mom \in SmoothedFactors, reds \in RedCards :
                call = RateCall("calculate_current_lambda", base, minute,
                                mom, score, reds)

\* pricing_model.get_remaining_xg(...) of the polling loop
RemainingXgCall ==
    /\ call.fn = "get_remaining_xg" /\ ~call.done
    /\ call' = [call EXCEPT
                   !.gs = game_state_mult(call.minute, call.score),
                   !.out = get_remaining_xg(call.base, call.minute, call.mom,
                                            call.score, call.c),
                   !.done = TRUE]
    /\ UNCHANGED <<bankroll, active_orders, ledger, history, match_states,
                   feed, now, nOps, last>>
    /\ UNCHANGED <<tasks, STATS_FILE, LIVE_INPLAY_CACHE, NO_ODDS_TRACKER>>

\* calculate_current_lambda(stats)
CurrentLambdaCall ==
    /\ call.fn = "calculate_current_lambda" /\ ~call.done
    /\ call' = [call EXCEPT
                   !.out = calculate_current_lambda(call.base, call.minute,
                                                    call.mom, call.score,
                                                    call.c),
                   !.done = TRUE]
    /\ UNCHANGED <<bankroll, active_orders, ledger, history, match_states,
                   feed, now, nOps, last>>
    /\ UNCHANGED <<tasks, STATS_FILE, LIVE_INPLAY_CACHE, NO_ODDS_TRACKER>>

NextRates == RemainingXgCall \/ CurrentLambdaCall

SpecRates == InitRates /\ [][NextRates]_vars

-----------------------------------------------------------------------------
(* The Poisson outcome and handicap models: LivePricing and
   AsianHandicapPricer of live_engine.py, LiveProbability and
   AsianHandicapPricer of live_prediction_model.py *)

\* a probability mass in units of 0.0001, a product of two in units of 1e-8
PmfScale == 10000
JointScale == PmfScale * PmfScale

\* the lines tried are the multiples of a quarter up to MaxQuarters quarters
MaxQuarters == 4

\* remaining-goals rates 0.1, 1.5 and 5.0 (in units of 0.0001 goal)
PoissonRates == {RateScale \div 10, 3 * (RateScale \div 2), 5 * RateScale}

\* scipy.stats.poisson.pmf(k, rate): exp(-rate) * rate^k / k!
poisson_pmf(k, rate) ==
    LET pmf == IF rate = RateScale \div 10
               THEN <<9048, 905, 45, 2, 0, 0, 0, 0, 0, 0, 0>>
               ELSE IF rate = 3 * (RateScale \div 2)
               THEN <<2231, 3347, 2510, 1255, 471, 141, 35, 8, 1, 0, 0>>
               ELSE <<67, 337, 842, 1404, 1755, 1755, 1462, 1044, 653, 363,
                      181>>
    IN  pmf[k + 1]

\* poisson.pmf(h, lambda_h) * poisson.pmf(a, lambda_a)
joint_prob(h, a, lambda) ==
    poisson_pmf(h, lambda[1]) * poisson_pmf(a, lambda[2])

\* the (h, a) pairs of two nested loops over range(n)
Cells(n) == (0..(n - 1)) \X (0..(n - 1))

\* the inner loop: the sum of joint_prob over the pairs (h, a), (h, a + 1),
\* ... that are in cells
RECURSIVE SumRow(_, _, _, _, _)
SumRow(cells, lambda, n, h, a) ==
    IF a = n THEN 0
    ELSE (IF <<h, a>> \in cells THEN joint_prob(h, a, lambda) ELSE 0)
         + SumRow(cells, lambda, n, h, a + 1)

\* the sum of joint_prob over the pairs of an n x n loop that are in cells,
\* from row h on
RECURSIVE SumCells(_, _, _, _)
SumCells(cells, lambda, n, h) ==
    IF h = n THEN 0
    ELSE SumRow(cells, lambda, n, h, 0) + SumCells(cells, lambda, n, h + 1)

\* floor(x * 10^digits / d) and its remainder, for 0 <= x and 10 * d < 2^31
RECURSIVE LongDiv(_, _, _)
LongDiv(x, d, digits) ==
    IF digits = 0 THEN [q |-> x \div d, r |-> x % d]
    ELSE LET Shift(hi, lo) == [q |-> hi * 10 + lo.q, r |-> lo.r]
             Next1(prev) == Shift(prev.q, LongDiv(prev.r * 10, d, 0))
         IN  Next1(LongDiv(x, d, digits - 1))

\* x / d as a float, in units of 10^-digits
Quotient(x, d, digits) == LongDiv(x, d, digits).q

\* round(x / d, digits), in units of 10^-digits
RoundQuotient(x, d, digits) ==
    LET Pick(res) == IF 2 * res.r < d THEN res.q
                     ELSE IF 2 * res.r > d THEN res.q + 1
                     ELSE IF res.q % 2 = 0 THEN res.q ELSE res.q + 1
    IN  Pick(LongDiv(x, d, digits))

\* LivePricing.calculate_1x2_probs: (prob_home, prob_draw, prob_away)
calculate_1x2_probs(lambda, current_score) ==
    LET max_goals == 10
        final(c) == <<current_score[1] + c[1], current_score[2] + c[2]>>
        Over(cells) == SumCells(cells, lambda, max_goals, 0)
    IN  <<Over({c \in Cells(max_goals) : final(c)[1] > final(c)[2]}),
          Over({c \in Cells(max_goals) : final(c)[1] = final(c)[2]}),
          Over({c \in Cells(max_goals) : final(c)[1] < final(c)[2]})>>

\* the sum of prob_matrix, normalised by its total, over the pairs of a row
\* that are in cells
RECURSIVE SumMatrixRow(_, _, _, _, _, _)
SumMatrixRow(cells, lambda, total, n, h, a) ==
    IF a = n THEN 0
    ELSE (IF <<h, a>> \in cells
          THEN Quotient(joint_prob(h, a, lambda), total, 8) ELSE 0)
         + SumMatrixRow(cells, lambda, total, n, h, a + 1)

RECURSIVE SumMatrix(_, _, _, _, _)
SumMatrix(cells, lambda, total, n, h) ==
    IF h = n THEN 0
    ELSE SumMatrixRow(cells, lambda, total, n, h, 0)
         + SumMatrix(cells, lambda, total, n, h + 1)

\* LiveProbability.calculate_score_probabilities followed by a sum of the
\* entries in cells (max_goals = 10, loops over range(max_goals + 1))
MatrixSum(cells, lambda) ==
    LET Normalised(total) == SumMatrix(cells, lambda, total, 11, 0)
    IN  Normalised(SumCells(Cells(11), lambda, 11, 0))

\* LiveProbability.calculate_match_outcome_probabilities for the rates
\* returned by calculate_current_lambda
calculate_match_outcome_probabilities(lambda, score) ==
    LET final(c) == <<score[1] + c[1], score[2] + c[2]>>
        Outcome(h, d, a) ==
            IF h + d + a > 0
            THEN <<Quotient(h, h + d + a, 8), Quotient(d, h + d + a, 8),
                   Quotient(a, h + d + a, 8)>>
            ELSE <<h, d, a>>
    IN  Outcome(MatrixSum({c \in Cells(11) : final(c)[1] > final(c)[2]},
                          lambda),
                MatrixSum({c \in Cells(11) : final(c)[1] = final(c)[2]},
                          lambda),
                MatrixSum({c \in Cells(11) : final(c)[1] < final(c)[2]},
                          lambda))

\* AsianHandicapPricer.calculate_handicap_probability: (win_prob, push_prob)
calculate_handicap_probability(lambda, score, handicap, for_home) ==
    LET adjusted_diff(c) ==
            IF for_home
            THEN ((score[1] + c[1]) - (score[2] + c[2])) * LineScale
                 + handicap
            ELSE ((score[2] + c[2]) - (score[1] + c[1])) * LineScale
                 + handicap
    IN  <<MatrixSum({c \in Cells(11) : adjusted_diff(c) > 0}, lambda),
          MatrixSum({c \in Cells(11) : adjusted_diff(c) = 0}, lambda)>>

\* AsianHandicapPricer.calculate_split_handicap
calculate_split_handicap(lambda, score, handicap, for_home) ==
    LET decimal_part == Abs(handicap) % (2 * Quarter)
        Half(wp) == wp[1] + wp[2] \div 2
        Combined(lower, upper) == (Half(lower) + Half(upper)) \div 2
    IN  IF decimal_part = Quarter
        THEN Combined(calculate_handicap_probability(
                          lambda, score, handicap - Quarter, for_home),
                      calculate_handicap_probability(
                          lambda, score, handicap + Quarter, for_home))
        ELSE Half(calculate_handicap_probability(lambda, score, handicap,
                                                 for_home))

\* get_asian_handicap_odds with the probabilities cut to four decimals
get_asian_handicap_odds_Truncated(lambda, score, handicap) ==
    LET Normalised(home_prob, away_prob) ==
            IF home_prob + away_prob > 0
            THEN [home_probability |->
                      Quotient(home_prob, home_prob + away_prob, 4),
                  away_probability |->
                      Quotient(away_prob, home_prob + away_prob, 4)]
            ELSE [home_probability |-> 0, away_probability |-> 0]
    IN  Normalised(calculate_split_handicap(lambda, score, handicap, TRUE),
                   calculate_split_handicap(lambda, score, 0 - handicap,
                                            FALSE))

\* AsianHandicapPricer.get_asian_handicap_odds: the home_probability and
\* away_probability of the returned dict, in units of 0.0001
get_asian_handicap_odds(lambda, score, handicap) ==
    LET Normalised(home_prob, away_prob) ==
            IF home_prob + away_prob > 0
            THEN [home_probability |->
                      RoundQuotient(home_prob, home_prob + away_prob, 4),
                  away_probability |->
                      RoundQuotient(away_prob, home_prob + away_prob, 4)]
            ELSE [home_probability |->
                      RoundQuotient(home_prob, JointScale, 4),
                  away_probability |->
                      RoundQuotient(away_prob, JointScale, 4)]
    IN  Normalised(calculate_split_handicap(lambda, score, handicap, TRUE),
                   calculate_split_handicap(lambda, score, 0 - handicap,
                                            FALSE))

\* AsianHandicapPricer.calculate_fair_odds of live_engine.py: the
\* effective_win_prob the fair odds are the inverse of
effective_win_prob(lambda, current_score_diff, line) ==
    LET threshold == (0 - line) - current_score_diff * LineScale
        diff(c) == (c[1] - c[2]) * LineScale
        Effective(win_prob, push_prob) ==
            IF push_prob > JointScale \div 100
            THEN Quotient(win_prob, JointScale - push_prob, 8)
            ELSE win_prob
    IN  Effective(SumCells({c \in Cells(10) :
                               diff(c) > threshold + LineScale \div 10},
                           lambda, 10, 0),
                  SumCells({c \in Cells(10) :
                               /\ ~(diff(c) > threshold + LineScale \div 10)
                               /\ Abs(diff(c) - threshold)
                                      < LineScale \div 10},
                           lambda, 10, 0))

\* AsianHandicapPricer.calculate_fair_odds of live_engine.py, in hundredths
calculate_fair_odds(lambda, current_score_diff, line) ==
    LET Odds(p) == IF p < JointScale \div 100 THEN 9900
                   ELSE RoundQuotient(JointScale, p, 2)
    IN  Odds(effective_win_prob(lambda, current_score_diff, line))

\* LivePricing.calculate_asian_handicap_prob
calculate_asian_handicap_prob(lambda, line, current_score) ==
    LET max_goals == 10
        val(c) == ((current_score[1] + c[1]) - (current_score[2] + c[2]))
                      * LineScale + line
        Over(cells) == SumCells(cells, lambda, max_goals, 0)
    IN  IF line % (2 * Quarter) = 0
        THEN Over({c \in Cells(max_goals) : val(c) > 0})
        ELSE Over({c \in Cells(max_goals) : val(c) >= 2 * Quarter})
             + Over({c \in Cells(max_goals) :
                        /\ val(c) < 2 * Quarter
                        /\ val(c) > 0 - 2 * Quarter
                        /\ Abs(val(c)) = Quarter
                        /\ val(c) > 0}) \div 2

OddsLines == {q * Quarter : q \in (0 - MaxQuarters)..MaxQuarters}

OddsScores == {<<0, 0>>, <<1, 0>>, <<0, 1>>, <<2, 1>>}

OutcomeFns == {"calculate_1x2_probs", "calculate_match_outcome_probabilities"}

LineFns ==
    {"calculate_fair_odds", "calculate_asian_handicap_prob",
     "get_asian_handicap_odds"}

OddsCall(fn, lambda, score, line) ==
    [fn |-> fn, lambda |-> lambda, score |-> score, line |-> line,
     out |-> <<>>, done |-> FALSE]

InitOdds ==
    /\ InitBase
    /\ \E lambda \in PoissonRates \X PoissonRates, score \in OddsScores :
          \/ \E fn \in OutcomeFns : call = OddsCall(fn, lambda, score, 0)
          \/ \E fn \in LineFns, line \in OddsLines :
                call = OddsCall(fn, lambda, score, line)

\* the call returns; nothing but the call record changes
Return(out) ==
    /\ call' = [call EXCEPT !.out = out, !.done = TRUE]
    /\ UNCHANGED <<bankroll, active_orders, ledger, history, match_states,
                   feed, now, nOps, last>>
    /\ UNCHANGED <<tasks, STATS_FILE, LIVE_INPLAY_CACHE, NO_ODDS_TRACKER>>

\* pricing_model.calculate_1x2_probs(lambda_h, lambda_a, score)
Probs1x2Call ==
    /\ call.fn = "calculate_1x2_probs" /\ ~call.done
    /\ Return([probs |-> calculate_1x2_probs(call.lambda, call.score),
               unit |-> JointScale])

\* model.calculate_match_outcome_probabilities(stats)
OutcomeCall ==
    /\ call.fn = "calculate_match_outcome_probabilities" /\ ~call.done
    /\ Return([probs |-> calculate_match_outcome_probabilities(
                             call.lambda, call.score),
               unit |-> JointScale])

\* ah_pricer.calculate_fair_odds for the line of the call and for the two
\* lines a quarter away from it
FairOddsCall ==
    /\ call.fn = "calculate_fair_odds" /\ ~call.done
    /\ LET price(line) ==
               effective_win_prob(call.lambda,
                                  call.score[1] - call.score[2], line)
       IN  Return([p |-> price(call.line),
                   lower |-> price(call.line - Quarter),
                   upper |-> price(call.line + Quarter),
                   fair_odd |-> calculate_fair_odds(
                                    call.lambda,
                                    call.score[1] - call.score[2],
                                    call.line),
                   unit |-> JointScale])

\* pricing_model.calculate_asian_handicap_prob for the same three lines
HandicapProbCall ==
    /\ call.fn = "calculate_asian_handicap_prob" /\ ~call.done
    /\ LET price(line) ==
               calculate_asian_handicap_prob(call.lambda, line, call.score)
       IN  Return([p |-> price(call.line),
                   lower |-> price(call.line - Quarter),
                   upper |-> price(call.line + Quarter),
                   unit |-> JointScale])

\* pricer.get_asian_handicap_odds for the same three lines
HandicapOddsCall ==
    /\ call.fn = "get_asian_handicap_odds" /\ ~call.done
    /\ LET Out(at, lower, upper) ==
               [p |-> at.home_probability,
                lower |-> lower.home_probability,
                upper |-> upper.home_probability,
                home_probability |-> at.home_probability,
                away_probability |-> at.away_probability,
                unit |-> PmfScale]
       IN  Return(Out(get_asian_handicap_odds(call.lambda, call.score,
                                              call.line),
                      get_asian_handicap_odds(call.lambda, call.score,
                                              call.line - Quarter),
                      get_asian_handicap_odds(call.lambda, call.score,
                                              call.line + Quarter)))

NextOdds ==
    \/ Probs1x2Call
    \/ OutcomeCall
    \/ FairOddsCall
    \/ HandicapProbCall
    \/ HandicapOddsCall

SpecOdds == InitOdds /\ [][NextOdds]_vars

-----------------------------------------------------------------------------
(* Properties *)

OrderKey(o) ==
    RecKey(o.match_id, o.selection.type, o.selection.line, o.selection.side)
OpenKeys(ao) == {OrderKey(ao[i]) : i \in DOMAIN ao}
OrdersOf(ao, f) == LET Is(o) == o.match_id = f IN SelectSeq(ao, Is)
NotInit(e) == e.type # "INIT"

\* C1 (ledger conservation): in every state reached by place_order and
\* settle_match calls from a fresh account, the bankroll equals the initial
\* bankroll plus the sum of the amounts of the ledger entries written after
\* the INIT entry, exactly.
C1_LedgerConservation ==
    bankroll = InitialBankroll * MoneyScale
                 + SumAmounts(SelectSeq(ledger, NotInit))

\* twice the payoff the settlement rule assigns to a result category
Payoff2(result, stake, odds) ==
    IF result = "WIN" THEN 2 * (stake \div Cent) * (odds - 100)
    ELSE IF result = "HALF_WIN" THEN (stake \div Cent) * (odds - 100)
    ELSE IF result = "PUSH" THEN 0
    ELSE IF result = "HALF_LOSS" THEN 0 - stake
    ELSE 0 - 2 * stake

\* C9 (settlement payoff): an accepted place_order lowers the bankroll by
\* the wager's stake; a settle_match of a fixture with one open wager gives
\* it one of the five result categories, credits exactly stake + payoff of
\* that category and writes one ledger entry; so the net change from
\* placing to settling is the payoff.
C9_SettlementPayoff ==
    [][ /\ (last'.op = "place_order" /\ last'.attempts[1].ok) =>
              bankroll' = bankroll
                            - active_orders'[Len(active_orders')].stake
        /\ last'.op = "settle_match" =>
              LET os == OrdersOf(active_orders, last'.fixture)
              IN  /\ Len(ledger') = Len(ledger) + Len(os)
                  /\ Len(os) = 1 =>
                        /\ ledger'[1].type \in
                              {"WIN", "HALF_WIN", "PUSH", "HALF_LOSS", "LOSS"}
                        /\ 2 * (bankroll' - bankroll) =
                              2 * os[1].stake
                                + Payoff2(ledger'[1].type, os[1].stake,
                                          os[1].odds)
      ]_vars

\* C10 (order acceptance): a place_order call is rejected exactly when an
\* open wager with the same (fixture, market, line, side) key exists, or the
\* stake exceeds the bankroll, or the stake is below the floor; every other
\* call is accepted: the stake is deducted, one ledger entry is appended and
\* the wager is added as open.
C10_OrderAcceptance ==
    [][ last'.op = "place_order" =>
          LET a == last'.attempts[1]
              stake_amount == StakeAmount(bankroll, last'.arg.stake_pct)
              barred == \/ a.key \in OpenKeys(active_orders)
                        \/ stake_amount > bankroll
                        \/ stake_amount < MinBet * MoneyScale
          IN  /\ a.ok <=> ~barred
              /\ a.ok =>
                    /\ bankroll' = bankroll - stake_amount
                    /\ Len(ledger') = Len(ledger) + 1
                    /\ Len(active_orders') = Len(active_orders) + 1
                    /\ OrderKey(active_orders'[Len(active_orders')]) = a.key
                    /\ active_orders'[Len(active_orders')].status = "OPEN"
      ]_vars

\* the settlement rule on one line: win, push or loss of a result delta
\* against a compare value, weighted (2 = whole stake, 1 = half stake)
RuleScore(delta, compare_value, weight) ==
    IF delta > compare_value THEN weight
    ELSE IF delta < compare_value THEN 0 - weight ELSE 0
ScoreName(sc) ==
    IF sc = 2 THEN "Win" ELSE IF sc = 1 THEN "Half Win"
    ELSE IF sc = 0 THEN "Push" ELSE IF sc = 0 - 1 THEN "Half Loss"
    ELSE "Loss"
Mirror(name) ==
    IF name = "Win" THEN "Loss" ELSE IF name = "Loss" THEN "Win"
    ELSE IF name = "Half Win" THEN "Half Loss"
    ELSE IF name = "Half Loss" THEN "Half Win" ELSE name

\* goals of the selected side minus goals of the opponent since placement
CallDelta ==
    LET dh == call.final[1] - call.rec.score_at_rec[1]
        da == call.final[2] - call.rec.score_at_rec[2]
    IN  (IF call.rec.selection = "Home" THEN dh - da ELSE da - dh) * LineScale
\* +1 when the selected side gives the handicap, -1 when it receives it
CallSign ==
    LET l == call.rec.handicap
    IN  IF l = 0 THEN 0
        ELSE IF (l < 0) = (call.rec.selection = "Home") THEN 1 ELSE 0 - 1
IsQuarterLine(l) == (Abs(l) % (2 * Quarter)) = Quarter

\* C6 (non-quarter handicap settlement): on a whole or half-goal line the
\* result is Win iff delta > compare_value, Loss iff delta < compare_value,
\* Push iff equal, with compare_value = +|line| for the side giving the
\* handicap, -|line| for the side receiving it, 0 on a level line.
C6_NonQuarterHandicap ==
    (call.fn = "hdp" /\ call.done /\ ~IsQuarterLine(call.rec.handicap)) =>
        call.rec.result =
            ScoreName(RuleScore(CallDelta,
                                CallSign * Abs(call.rec.handicap), 2))

\* C7 (quarter-line settlement): on a line whose fraction is .25 or .75 the
\* result is the combination of the two adjacent lines |line| - 0.25 and
\* |line| + 0.25, each settled by the non-quarter rule at half weight.
C7_QuarterLine ==
    (call.fn = "hdp" /\ call.done /\ IsQuarterLine(call.rec.handicap)) =>
        call.rec.result =
            ScoreName(
                RuleScore(CallDelta,
                          CallSign * (Abs(call.rec.handicap) - Quarter), 1)
                + RuleScore(CallDelta,
                            CallSign * (Abs(call.rec.handicap) + Quarter), 1))

\* a settled quarter-line record: line -0.75, Home, placed 0-0, final 1-0,
\* Half Win
C7_Witness ==
    /\ call.fn = "hdp" /\ call.done
    /\ call.rec.handicap = 0 - 3 * Quarter
    /\ call.rec.selection = "Home"
    /\ call.rec.score_at_rec = <<0, 0>>
    /\ call.final = <<1, 0>>
    /\ call.rec.result = "Half Win"

\* the Over result of total goals against line l
OverName(total, l) ==
    IF IsQuarterLine(l)
    THEN ScoreName(RuleScore(total * LineScale, l - Quarter, 1)
                   + RuleScore(total * LineScale, l + Quarter, 1))
    ELSE ScoreName(RuleScore(total * LineScale, l, 2))

\* C8 (totals settlement): an Over record wins iff the final total exceeds
\* the line, loses iff it is below and pushes iff equal; quarter lines
\* combine the two adjacent lines at half weight; Under is the mirror.
C8_Totals ==
    (call.fn = "ou" /\ call.done) =>
        LET over == OverName(call.final[1] + call.final[2],
                             call.rec.handicap)
        IN  call.rec.result =
                IF call.rec.selection = "Over" THEN over ELSE Mirror(over)

\* a settled Under record on a quarter line with a half result:
\* Under 2.25, final 1-1, Half Win
C8_Witness ==
    /\ call.fn = "ou" /\ call.done
    /\ call.rec.handicap = 9 * Quarter
    /\ call.rec.selection = "Under"
    /\ call.final = <<1, 1>>
    /\ call.rec.result = "Half Win"

HistoryKeys(hist) == {hist[i].key : i \in DOMAIN hist}
TradingUnchanged ==
    UNCHANGED <<bankroll, active_orders, ledger, history>>

\* no two open wagers, and no two pending records, share a key
C2_Unique ==
    /\ \A i, j \in DOMAIN active_orders :
          i # j => OrderKey(active_orders[i]) # OrderKey(active_orders[j])
    /\ \A i, j \in DOMAIN history :
          (i # j /\ history[i].result = "Pending"
                 /\ history[j].result = "Pending")
              => history[i].key # history[j].key

\* what a polling step does with orders and records whose key is taken
C2_Reject ==
    last'.op = "poll" =>
        LET at == last'.attempts
        IN  /\ \A i \in DOMAIN at :
                  (at[i].key \in OpenKeys(active_orders)
                                   \cup {at[j].key : j \in
                                           {k \in 1..(i - 1) : at[k].ok}})
                      => ~at[i].ok
            /\ Len(active_orders') >= Len(active_orders)
            /\ SubSeq(active_orders', 1, Len(active_orders)) = active_orders
            /\ (\A i \in DOMAIN at : ~at[i].ok) =>
                  (bankroll' = bankroll /\ ledger' = ledger
                                        /\ active_orders' = active_orders)
            /\ Len(history') >= Len(history)
            /\ SubSeq(history', 1, Len(history)) = history
            /\ \A i \in (Len(history) + 1)..Len(history') :
                  history'[i].key \notin HistoryKeys(history)

\* C2 (duplicate-order prevention): the active set never holds two open
\* wagers with the same (fixture, market, line, side) key, nor the history
\* two pending records with one key; an order or record whose key is taken
\* is rejected and leaves the existing wagers and records, the bankroll and
\* the ledger unchanged.
C2_DuplicatePrevention == []C2_Unique /\ [][C2_Reject]_vars

\* a polling step that repeated an open wager's key and a recorded key:
\* every order was rejected and the record was not added again
C2_Witness ==
    /\ last.op = "poll"
    /\ last.attempts # <<>>
    /\ \A i \in DOMAIN last.attempts : ~last.attempts[i].ok
    /\ \E i \in DOMAIN last.attempts :
          last.attempts[i].key \in OpenKeys(active_orders)
    /\ \E i \in DOMAIN last.adds : last.adds[i] \in HistoryKeys(history)

\* C3 (exactly-once settlement): a settlement run writes one ledger entry
\* per wager it removes and removes every wager of the fixtures it settles;
\* a run that removes nothing changes neither bankroll nor ledger; outside
\* settlement runs only BET entries are written; a record that has left
\* Pending is never changed again, whatever the later final score.
C3_ExactlyOnce ==
    [][ /\ \A i \in DOMAIN history :
              (history[i].result # "Pending" /\ i \in DOMAIN history')
                  => history'[i] = history[i]
        /\ last'.op = "settle" =>
              /\ Len(ledger') - Len(ledger)
                    = Len(active_orders) - Len(active_orders')
              /\ \A i \in DOMAIN active_orders :
                    \/ \E j \in DOMAIN active_orders' :
                          active_orders'[j] = active_orders[i]
                    \/ ~OrderExists(active_orders',
                                    active_orders[i].match_id)
              /\ OpenKeys(active_orders') \subseteq OpenKeys(active_orders)
              /\ Len(active_orders') = Len(active_orders) =>
                    (bankroll' = bankroll /\ ledger' = ledger)
        /\ last'.op # "settle" =>
              \A i \in 1..(Len(ledger') - Len(ledger)) :
                  ledger'[i].type = "BET"
      ]_vars

\* after a settlement run: a settled record exists whose fixture's score
\* was revised after it was settled, the wager is gone, its credit written
C3_Witness ==
    /\ last.op = "settle"
    /\ active_orders = <<>>
    /\ Len(ledger) >= 3
    /\ \E i \in DOMAIN history :
          /\ history[i].result # "Pending"
          /\ history[i].final_score # feed[history[i].match_id].score

\* C4 (consensus gating): a polling step in which the secondary source
\* reports goal counts different from the primary's places no order and
\* adds no record.
C4_ConsensusGating ==
    [][ ( /\ last'.op = "poll"
          /\ last'.arg.secondary.present
          /\ last'.arg.secondary.goals # feed[last'.fixture].score )
        => TradingUnchanged ]_vars

\* a conflicting poll of a fixture with a value quote and no open wager
C4_Witness ==
    /\ last.op = "poll"
    /\ last.arg.secondary.present
    /\ last.arg.secondary.goals # feed[last.fixture].score
    /\ last.arg.ah.present
    /\ ~OrderExists(active_orders, last.fixture)

\* C5 (freeze gating): a polling step in which check_safety reports the
\* fixture unsafe places no order and adds no record.
C5_FreezeGating ==
    [][ (last'.op = "poll" /\ ~last'.safe) => TradingUnchanged ]_vars

-----------------------------------------------------------------------------
(* Atomicity of the PaperTrader operations under the asyncio scheduling *)

\* the positions of a task inside place_order, settle_match or save_state
InOperation(pc) ==
    pc \in {"po_check", "po_stake", "po_deduct", "po_append", "po_ledger",
            "po_return", "sm_loop", "sm_credit", "sm_ledger", "sm_remove",
            "sm_return", "save_open", "save_dump"}

\* while a task is inside an operation no other task executes a statement
C11_NoInterleaving ==
    \A t \in Tasks :
        InOperation(tasks.pc[t])
            => \A u \in Tasks \ {t} :
                  /\ tasks'.pc[u] = tasks.pc[u]
                  /\ tasks'.loc[u] = tasks.loc[u]

\* an operation that has returned has done to the account exactly what the
\* whole operation does to the account it found when it was called
C11_Effect ==
    /\ last.op = "place_order"
          => \E r \in {place_order(last.arg.at_call, last.fixture,
                                   last.arg.selection, last.arg.odds,
                                   last.arg.stake_pct)} :
                PT = r.pt /\ last.trust = r.msg
    /\ last.op = "settle_match"
          => PT = settle_match(last.arg.at_call, last.fixture,
                               last.arg.score[1], last.arg.score[2])

\* C11 (atomic ledger operations): under every interleaving of the polling
\* task and the settlement task, place_order (duplicate check, stake
\* deduction, ledger entry) and settle_match (credit, ledger entry, removal)
\* run from call to return without a statement of another task in between,
\* and their effect on bankroll, active set and ledger is that of the whole
\* operation applied to the account as it was at the call.
C11_Atomic == []C11_Effect /\ [][C11_NoInterleaving]_vars

\* the polling task is between deduction and append while the settlement
\* task has its request in flight
C11_Witness ==
    /\ tasks.pc["poll"] = "po_append"
    /\ tasks.pc["settle"] = "await_resp"

-----------------------------------------------------------------------------
(* Persistence of the account *)

Range(seq) == {seq[i] : i \in DOMAIN seq}

\* the orders whose place_order had returned when the process stopped
AcceptedBefore ==
    LET ao == last.arg.before.active_orders
    IN  IF last.arg.pc["poll"] \in {"po_ledger", "save_open", "save_dump",
                                    "po_return"}
        THEN Range(SubSeq(ao, 1, Len(ao) - 1))
        ELSE Range(ao)

\* C12 (all-or-nothing persistence): after the process stopped and the
\* account was reloaded, every wager accepted before is still there (none
\* lost), and the ledger holds one BET entry for every wager that is open or
\* has a settlement entry (none removed without its entry, none settled
\* while open).
C12_AllOrNothing ==
    last.op = "crash" =>
        /\ \A o \in AcceptedBefore : o \in Range(active_orders)
        /\ Cardinality({i \in DOMAIN ledger : ledger[i].type = "BET"})
              = Len(active_orders)
                + Cardinality({i \in DOMAIN ledger :
                                  ledger[i].type \notin {"BET", "INIT"}})

(***************************************************************************)
(* Polling cycle                                                           *)
(***************************************************************************)

\* the fixture ids of a published list
ListedIds(list) == {list[i].id : i \in DOMAIN list}

\* C13  Batch isolation: when the processing of one fixture raises at some
\* step of a polling cycle, the loop still runs to its end (the remaining
\* fixtures are processed) and the list of the cycle is published: every
\* other live fixture with quoted odds is in LIVE_INPLAY_CACHE.
C13_BatchIsolation ==
    (last.op = "cycle" /\ last.arg.fetch_ok /\ last.arg.bad # 0) =>
        /\ ~last.arg.raised
        /\ \A g \in last.arg.live \ {last.arg.bad} :
              last.arg.quoted[g] # {} => g \in ListedIds(LIVE_INPLAY_CACHE)

\* C19  Missing odds: after a cycle in which no fixture raised, every live
\* fixture without quoted odds is in the published list, however long its
\* odds have been missing, and every recommendation and every order of the
\* cycle is for a market the feed quoted.
C19_MissingOdds ==
    (last.op = "cycle" /\ last.arg.fetch_ok /\ last.arg.bad = 0) =>
        /\ \A f \in last.arg.live :
              last.arg.quoted[f] = {} => f \in ListedIds(LIVE_INPLAY_CACHE)
        /\ \A i \in DOMAIN last.attempts :
              last.attempts[i].key[2] \in
                  last.arg.quoted[last.attempts[i].key[1]]
        /\ \A i \in DOMAIN last.adds :
              last.adds[i][2] \in last.arg.quoted[last.adds[i][1]]

(***************************************************************************)
(* Settlement purity                                                       *)
(***************************************************************************)

KellyNum(pn, market_odds) == pn * market_odds - 100 * ProbDen
KellyDen(market_odds) == ProbDen * (market_odds - 100)

\* the inputs for which the claim demands a zero stake
ZeroStake(pn, market_odds) ==
    \/ market_odds <= 101
    \/ pn <= 0
    \/ KellyNum(pn, market_odds) <= 0

\* 0.25 * f >= 5 %
AtCap(pn, market_odds) ==
    KellyNum(pn, market_odds) * 25 >= 5 * KellyDen(market_odds)

\* the completed calculate_stake calls on numbers: <<pn, value>> pairs
StakeResults ==
    IF call.fn = "calculate_stake" /\ call.done /\ call.market_odds # Missing
    THEN {<<call.pn[i], call.out[i].value>> : i \in 1..2}
    ELSE {}

C16_KellyMonotone ==
    (/\ call.fn \in {"calculate_stake", "calculate_kelly_stake"}
     /\ call.done /\ call.market_odds # Missing) =>
        /\ call.out[1].value <= call.out[2].value
        /\ \A i \in 1..2 :
              call.pn[i] * call.market_odds - 100 * ProbDen <= 0
                  => call.out[i].value = 0

\* two probabilities with positive edge and different stakes below the cap
C16_Witness ==
    /\ call.fn = "calculate_stake" /\ call.done
    /\ call.market_odds # Missing
    /\ 0 < call.out[1].value
    /\ call.out[1].value < call.out[2].value
    /\ call.out[2].value < 500

\* the degenerate inputs of evaluation i of a call
Degenerate(i) ==
    \/ call.market_odds = Missing
    \/ call.market_odds <= 101
    \/ call.fn \in {"analyze", "calculate_edge"}
          /\ call.fair_odds # Missing /\ call.fair_odds <= 0
    \/ call.fn = "calculate_stake" /\ call.pn[i] <= 0

\* C17  Degenerate inputs: analyze, calculate_edge and calculate_stake,
\* called with market odds <= 1.01 or missing, fair odds <= 0 or a
\* probability <= 0, do not raise and return no signal or a zero stake.
C17_DegenerateInputs ==
    (call.fn \in {"analyze", "calculate_edge", "calculate_stake"}
        /\ call.done) =>
        \A i \in DOMAIN call.out :
            Degenerate(i) =>
                /\ ~call.out[i].raised
                /\ ~call.out[i].signal
                /\ call.fn = "calculate_stake" => call.out[i].value = 0

(***************************************************************************)
(* Stale data                                                              *)
(***************************************************************************)

\* the last step was a check_safety call with data older than max_latency
StaleCheck ==
    /\ last.op = "check_safety"
    /\ last.arg.t - last.arg.data_timestamp > max_latency

\* C18  Stale data: a check_safety call with data older than max_latency
\* reports the fixture unsafe and leaves match_states (last score and
\* last-change time of every fixture) as it was, so the next fresh check
\* is judged against the record held before the stale reading.
C18_StaleData ==
    [][StaleCheck' => (~last'.safe /\ match_states' = match_states)]_vars

\* a stale reading that carries a score other than the recorded one
C18_Witness ==
    /\ StaleCheck
    /\ last.fixture \in DOMAIN match_states
    /\ last.arg.current_score # match_states[last.fixture].last_score
    /\ ~last.safe

(***************************************************************************)
(* Running balance                                                         *)
(***************************************************************************)

\* C20  Running balance: in the ledger (newest entry first) the balance
\* recorded by each entry equals the balance recorded by the entry written
\* before it plus the entry's own amount.
C20_RunningBalance ==
    \A i \in 1..(Len(ledger) - 1) :
        ledger[i].balance = ledger[i + 1].balance + ledger[i].amount

(***************************************************************************)
(* Freeze window                                                           *)
(***************************************************************************)

\* the last step was a check_safety call with fresh data
FreshCheck ==
    /\ last.op = "check_safety"
    /\ last.arg.t - last.arg.data_timestamp <= max_latency

\* C26  Freeze window: a fresh check of a fixture whose score differs from
\* the recorded one is unsafe and records the score and the time of the
\* check; a fresh check with the recorded score is unsafe before the
\* recorded time plus freeze_time and safe from then on, and leaves the
\* record as it is.
C26_FreezeWindow ==
    [][(FreshCheck' /\ last'.fixture \in DOMAIN match_states) =>
          LET f == last'.fixture
              rec == match_states[f]
          IN  IF last'.arg.current_score # rec.last_score
              THEN /\ ~last'.safe
                   /\ match_states'[f] =
                         [last_score |-> last'.arg.current_score,
                          last_event_ts |-> last'.arg.t]
              ELSE /\ last'.safe =
                         (last'.arg.t >= rec.last_event_ts + freeze_time)
                   /\ match_states'[f] = rec]_vars

\* the first fresh check at exactly freeze_time after an observed change
C26_Witness ==
    /\ FreshCheck
    /\ last.safe
    /\ last.fixture \in DOMAIN match_states
    /\ match_states[last.fixture].last_event_ts = StartTime
    /\ last.arg.t = StartTime + freeze_time

(***************************************************************************)
(* One settlement rule                                                     *)
(***************************************************************************)

\* the record result that corresponds to a payout category of the ledger
RecordName(paid) ==
    IF paid = "WIN" THEN "Win" ELSE IF paid = "HALF_WIN" THEN "Half Win"
    ELSE IF paid = "PUSH" THEN "Push"
    ELSE IF paid = "HALF_LOSS" THEN "Half Loss"
    ELSE IF paid = "LOSS" THEN "Loss" ELSE paid

\* C28  One settlement rule: once a wager is settled both as a
\* recommendation record and as a paper order, the category the ledger
\* pays out by is the result of the record.
C28_OneRule ==
    (call.fn = "rule" /\ call.result # "Pending" /\ call.paid # "OPEN") =>
        RecordName(call.paid) = call.result

(***************************************************************************)
(* Solvency                                                                *)
(***************************************************************************)

\* the last step accepted an order
Accepted == last.op = "place_order" /\ last.attempts[1].ok

\* the stake of an accepted order is at least the floor and at most the
\* bankroll held before the call
C29_StakeRange ==
    Accepted' =>
        LET order == active_orders'[Len(active_orders')]
        IN  /\ order.stake >= MinBet * MoneyScale
            /\ order.stake <= bankroll

\* C29  Solvency: after any sequence of place_order and settle_match calls
\* the bankroll is not negative, and the stake of every accepted order is
\* at least the minimum floor (10) and at most the bankroll held
\* immediately before the order was placed.
C29_Solvency == [](bankroll >= 0) /\ [][C29_StakeRange]_vars

(***************************************************************************)
(* Market independence                                                     *)
(***************************************************************************)

\* the totals quote of the feed
QuotedOu == CHOOSE q \in OuQuotes : q.present

\* the Over side of quote q has an edge above the threshold and a
\* positive Kelly stake
OverValue(q) ==
    /\ analyze(FairOdds(q.fair, 100), q.o, 5)
    /\ calculate_stake(100, q.fair, q.o) > 0

\* fixture f got a totals recommendation in the last cycle
OuRecommended(f) ==
    \E i \in DOMAIN last.adds :
        last.adds[i] = RecKey(f, "OU", QuotedOu.line, "Over")

OpenOn(f) ==
    \E i \in DOMAIN active_orders : active_orders[i].match_id = f

\* C27  Eventual settlement: once a fixture is reported finished, every
\* Open wager on it is eventually settled and removed, provided the
\* settlement task keeps running, whatever polls, history clears and
\* failed requests happen in between.
C27_EventualSettlement ==
    \A f \in Fixtures :
        (OpenOn(f) /\ feed[f].status = "FT") ~> ~OpenOn(f)

(***************************************************************************)
(* Game-state correction and rate clamp                                    *)
(***************************************************************************)

\* an answered call of get_remaining_xg
RatesGiven == call.fn = "get_remaining_xg" /\ call.done

\* goals by which the home side (1) or the away side (2) trails
Behind(side) == call.score[3 - side] - call.score[side]

\* C21  Game-state correction as claimed: after minute 60 a side trailing by
\* exactly one goal is multiplied by 1.15, a side trailing by two or more by
\* 1.10 and the leading side by 0.90; at a level score or up to minute 60
\* both multipliers are 1.
C21_GameState ==
    RatesGiven =>
        \A side \in {1, 2} :
            call.gs[side] =
                IF call.minute <= 60 \/ Behind(side) = 0 THEN Mil
                ELSE IF Behind(side) = 1 THEN 1150
                ELSE IF Behind(side) >= 2 THEN 1100
                ELSE 900

\* C21 (amended)  After minute 60 a side trailing by exactly one goal is
\* multiplied by 1.15, a side trailing by exactly two by 1.10, a side
\* trailing by three or more by 1, and the leading side by 0.90; at a level
\* score or up to minute 60 both multipliers are 1.
C21_GameStateExactlyTwo ==
    RatesGiven =>
        \A side \in {1, 2} :
            call.gs[side] =
                IF call.minute <= 60 \/ Behind(side) = 0 THEN Mil
                ELSE IF Behind(side) = 1 THEN 1150
                ELSE IF Behind(side) = 2 THEN 1100
                ELSE IF Behind(side) >= 3 THEN Mil
                ELSE 900

\* after minute 60 the home side trails by two and is boosted by 1.10 while
\* the visitors are damped
C21_Witness ==
    /\ RatesGiven
    /\ call.minute > 60
    /\ Behind(1) = 2
    /\ call.gs = <<1100, 900>>

\* C22  Rate clamp: each side's final remaining-goals rate lies within
\* [0.1, 5.0], whichever function computed it.
C22_RateClamp ==
    (call.fn \in {"get_remaining_xg", "calculate_current_lambda"}
        /\ call.done) =>
        \A side \in {1, 2} :
            /\ call.out[side] >= RateScale \div 10
            /\ call.out[side] <= 5 * RateScale

(***************************************************************************)
(* Outcome probabilities, handicap symmetry and quarter lines              *)
(***************************************************************************)

\* the tolerance of test_probability_sum_to_one: one part in SumTolerance
SumTolerance == 1000

\* C23  Probabilities sum to one: the home-win, draw and away-win
\* probabilities returned by either outcome model sum to 1 (here within
\* 0.001, the resolution of the tabulated Poisson masses).
C23_SumToOne ==
    (call.fn \in OutcomeFns /\ call.done) =>
        Abs(call.out.probs[1] + call.out.probs[2] + call.out.probs[3]
            - call.out.unit)
            <= call.out.unit \div SumTolerance

\* the line of the call is a quarter line
QuarterLine == Abs(call.line) % (2 * Quarter) = Quarter

\* C24  Handicap symmetry: for every non-quarter line the home probability
\* at line L and the away probability at line -L returned by
\* get_asian_handicap_odds sum to 1.
C24_HandicapSymmetry ==
    (call.fn = "get_asian_handicap_odds" /\ call.done /\ ~QuarterLine) =>
        call.out.home_probability + call.out.away_probability = PmfScale

\* at level rates and 0-0 the home side giving half a goal wins less often
\* than the visitors receiving it
C24_Witness ==
    /\ call.fn = "get_asian_handicap_odds" /\ call.done
    /\ call.line = 0 - 2 * Quarter
    /\ call.score = <<0, 0>>
    /\ call.lambda[1] = call.lambda[2]
    /\ call.out.home_probability > 0
    /\ call.out.home_probability < call.out.away_probability

\* C25  Quarter-line pricing: the win probability used to price a quarter
\* line is the equal-weight average of the probabilities of the two
\* adjacent lines and lies between them.
C25_QuarterLine ==
    (call.fn \in LineFns /\ call.done /\ QuarterLine) =>
        /\ Abs(2 * call.out.p - (call.out.lower + call.out.upper))
               <= 2 * (call.out.unit \div SumTolerance)
        /\ call.out.p >= Least(call.out.lower, call.out.upper) - 1
        /\ call.out.p <= Greatest(call.out.lower, call.out.upper) + 1

====
